---- MODULE Spec2Model ----
(***************************************************************************)
(* Model of the empowerdreamz site: the public pages (partners, completed  *)
(* projects), the dashboard pages (projects, partners, giving circle) and  *)
(* the pure rendering helpers (progress bar, rollups, completion clean-up).*)
(*                                                                         *)
(* Text is modelled as a sequence of one-character strings, so that        *)
(* toLowerCase() and trim() are computed character by character.           *)
(* An optional field is a sequence of length 0 (absent) or 1 (present).    *)
(* Array.prototype.filter is SelectSeq: the kept elements, in their order.  *)
(***************************************************************************)
EXTENDS Integers, Sequences, FiniteSets, TLC

\* ------------------------------------------------------------------------
\* Bounds of the model
\* ------------------------------------------------------------------------

\* snapshots the store emits on one subscription
MaxEmitted == 2

\* write calls the administrator issues
MaxWrites == 1

\* ------------------------------------------------------------------------
\* State
\* ------------------------------------------------------------------------

\* PartnersPage, src/app/(public)/partners/page.tsx
VARIABLES
  firestorePartners,   \* PartnersPage state: the live partners
  ppLoading,           \* PartnersPage state: loading
  ppListener,          \* the onSnapshot subscription: listening, errored, unsubscribed
  ppPending,           \* snapshots the store has emitted and not yet delivered
  ppEmitted,           \* number of snapshots emitted on the subscription
  ppSubscribes,        \* number of onSnapshot calls the page has made
  ppLast,              \* the snapshot delivered last, if any
  displayPartners,     \* the partner grid as rendered: founding, then additional
  contributingPartners,\* rendered: the live partners with an amount
  totalContributed     \* rendered: their total

ppVars == << firestorePartners, ppLoading, ppListener, ppPending, ppEmitted,
             ppSubscribes, ppLast, displayPartners, contributingPartners,
             totalContributed >>

\* CompletedProjectsPage, src/unnamed/part_002
VARIABLES
  completedItems,      \* CompletedProjectsPage state: the flattened list
  cpLoading,           \* CompletedProjectsPage state: loading
  cpListener,          \* the onSnapshot subscription
  cpPending,           \* snapshots emitted and not yet delivered
  cpEmitted,           \* number of snapshots emitted on the subscription
  cpSubscribes,        \* number of onSnapshot calls the page has made
  cpLast               \* the snapshot delivered last, if any

cpVars == << completedItems, cpLoading, cpListener, cpPending, cpEmitted,
             cpSubscribes, cpLast >>

\* one progress bar, drawn by each page that has one
VARIABLES
  pgRaised,            \* the record's raised field, if present
  pgGoal,              \* the record's goal field, if present
  pgWidth,             \* page -> the bar width it rendered, if it has rendered
  pgLabel,             \* page -> the number of the label beside the bar, likewise
  pgDivisors           \* the divisors of the divisions evaluated so far

pgVars == << pgRaised, pgGoal, pgWidth, pgLabel, pgDivisors >>

\* one list of records and the totals computed from it
VARIABLES
  rlBase,              \* the list as first loaded
  rlList,              \* the list in its current order
  rlLedger,            \* LedgerPage totals over rlList, once computed
  rlPartners           \* AdminPartnersPage total over rlList, once computed

rlVars == << rlBase, rlList, rlLedger, rlPartners >>

\* one completion form and the payloads built from it
VARIABLES
  cfForm,              \* completionFormData
  cfClean,             \* buildCleanCompletionData(), src/unnamed/part_002
  cfCleanOld,          \* cleanCompletionData, src/app/dashboard/projects/page.tsx
  cfAgain,             \* the payload of the modal opened on cfClean and submitted as it is
  cfAgainOld           \* the same for cfCleanOld, on the dashboard before the sub-projects

cfVars == << cfForm, cfClean, cfCleanOld, cfAgain, cfAgainOld >>

\* the store, and the dashboard page an administrator has mounted
VARIABLES
  store,               \* collection name -> its documents, in query order
  nextId,              \* the next generated id (addDoc, genId, generateSubId)
  writes,              \* number of write calls issued so far
  inflight,            \* the write call awaited by a handler, if any
  event,               \* what the last step of the dashboard did
  route,               \* the dashboard page that is mounted
  visit,               \* the form of that page the administrator has come to fill in
  listener,            \* its onSnapshot subscription
  pending,             \* snapshots emitted to it and not yet delivered
  last,                \* the snapshot delivered to it last, if any
  subscribes,          \* number of onSnapshot calls the page has made
  loading,             \* page state: loading
  saving,              \* page state: saving
  deleting             \* page state: deleting

dbVars == << store, nextId, writes, inflight, event, route, visit, listener, pending,
             last, subscribes, loading, saving, deleting >>

\* the state of each dashboard page, a record of its useState fields
VARIABLES
  gc,                  \* AdminGivingCirclePage, src/app/dashboard/giving-circle/page.tsx
  pr,                  \* ProjectsPage, src/unnamed/part_002 lines 1042-1066
  pa,                  \* AdminPartnersPage, src/app/dashboard/partners/page.tsx
  od                   \* ProjectsPage, src/app/dashboard/projects/page.tsx lines 54-98

pageVars == << gc, pr, pa, od >>

\* what a click that only changes the state of its page leaves alone
clickOthers == << store, nextId, writes, inflight, route, visit, listener, pending, last,
                 subscribes, loading, saving, deleting >>

\* two administrator sessions at work on the same parent document
VARIABLES
  sessions,            \* session -> the parent it captured, its write call, where it stands
  applied              \* the sessions whose write the store has applied, in order

tsVars == << sessions, applied >>

vars == << ppVars, cpVars, pgVars, rlVars, cfVars, tsVars, dbVars, pageVars >>

\* the public pages, the pure renderings and the second session, which no
\* step of the one-session dashboard touches
publicVars == << ppVars, cpVars, pgVars, rlVars, cfVars, tsVars >>

\* what the actions of one component leave alone
ppOthers == << cpVars, pgVars, rlVars, cfVars, tsVars, dbVars, pageVars >>

cpOthers == << ppVars, pgVars, rlVars, cfVars, tsVars, dbVars, pageVars >>

pgOthers == << ppVars, cpVars, rlVars, cfVars, tsVars, dbVars, pageVars >>

rlOthers == << ppVars, cpVars, pgVars, cfVars, tsVars, dbVars, pageVars >>

cfOthers == << ppVars, cpVars, pgVars, rlVars, tsVars, dbVars, pageVars >>

\* ------------------------------------------------------------------------
\* Generic helpers
\* ------------------------------------------------------------------------

None == <<>>

Some(x) == <<x>>

\* JavaScript `x || 0` on an optional number
OrZero(o) == IF o = None THEN 0 ELSE o[1]

Range(s) == { s[i] : i \in 1..Len(s) }

\* all sequences without repetition over the set S
RECURSIVE Arrangements(_)
Arrangements(S) ==
  IF S = {} THEN { <<>> }
  ELSE { <<>> } \cup UNION { { <<x>> \o t : t \in Arrangements(S \ {x}) } : x \in S }

UpperCase == << "A","B","C","D","E","F","G","H","I","J","K","L","M",
                "N","O","P","Q","R","S","T","U","V","W","X","Y","Z" >>

LowerCase == << "a","b","c","d","e","f","g","h","i","j","k","l","m",
                "n","o","p","q","r","s","t","u","v","w","x","y","z" >>

\* String.prototype.toLowerCase on one character
LowerChar(c) ==
  IF \E i \in 1..26 : UpperCase[i] = c
  THEN LowerCase[CHOOSE i \in 1..26 : UpperCase[i] = c]
  ELSE c

\* String.prototype.toLowerCase
toLowerCase(s) == [ i \in 1..Len(s) |-> LowerChar(s[i]) ]

\* ------------------------------------------------------------------------
\* Public partners page: src/app/(public)/partners/page.tsx
\* ------------------------------------------------------------------------

GrowWithGoogle == << "G","r","o","w"," ","w","i","t","h"," ","G","o","o","g","l","e" >>

GoodStack == << "G","o","o","d","S","t","a","c","k" >>

TechSoup == << "T","e","c","h","S","o","u","p" >>

FOUNDING_PARTNERS ==
  << [ id |-> "grow-with-google", name |-> GrowWithGoogle, amount |-> None ],
     [ id |-> "goodstack",        name |-> GoodStack,      amount |-> None ],
     [ id |-> "techsoup",         name |-> TechSoup,       amount |-> None ] >>

\* the documents the partners collection may hold
LivePartnerDocs ==
  { [ id |-> "p1", name |-> << "g","o","o","d","s","t","a","c","k" >>, amount |-> Some(50) ],
    [ id |-> "p2", name |-> << "B","e","t","a" >>,   amount |-> Some(20) ],
    [ id |-> "p3", name |-> << "B","E","T","A" >>,   amount |-> None ] }

PartnerSnapshots == Arrangements(LivePartnerDocs)

foundingIdsMutant(seed) == { seed[i].name : i \in 1..Len(seed) }

\* line 70: new Set(FOUNDING_PARTNERS.map(p => p.name.toLowerCase()))
foundingIds(seed) == { toLowerCase(seed[i].name) : i \in 1..Len(seed) }

additionalPartnersMutant(seed, live) ==
  LET Keep(p) == p.name \notin { seed[i].name : i \in 1..Len(seed) }
  IN  SelectSeq(live, Keep)

\* line 71: firestorePartners.filter(p => !foundingIds.has(p.name.toLowerCase()))
additionalPartners(seed, live) ==
  LET Keep(p) == toLowerCase(p.name) \notin foundingIds(seed)
  IN  SelectSeq(live, Keep)

RenderPartnerGridMutant(seed, live) == IF live = <<>> THEN seed ELSE live

\* lines 124 and 147: the founding grid, then the additional grid
RenderPartnerGrid(seed, live) == seed \o additionalPartners(seed, live)

\* the contributors taken from the partners the grid shows
ContributingOfMutant(live) ==
  LET Keep(p) == p.amount # None /\ p.amount[1] > 0
  IN  SelectSeq(additionalPartners(FOUNDING_PARTNERS, live), Keep)

\* line 66: firestorePartners.filter(p => p.amount && p.amount > 0)
ContributingOf(live) ==
  LET Keep(p) == p.amount # None /\ p.amount[1] > 0
  IN  SelectSeq(live, Keep)

\* reduce((sum, p) => sum + (p.amount || 0), 0)
RECURSIVE SumAmount(_)
SumAmount(s) ==
  IF s = <<>> THEN 0 ELSE SumAmount(SubSeq(s, 1, Len(s) - 1)) + OrZero(s[Len(s)].amount)

\* the render that follows every state change of PartnersPage
PartnersRender(live) ==
  /\ displayPartners' = RenderPartnerGrid(FOUNDING_PARTNERS, live)
  /\ contributingPartners' = ContributingOf(live)
  /\ totalContributed' = SumAmount(ContributingOf(live))

InitPartnersPage ==
  /\ firestorePartners = <<>>
  /\ ppLoading = TRUE
  /\ ppListener = "listening"
  /\ ppPending = <<>>
  /\ ppEmitted = 0
  /\ ppSubscribes = 1
  /\ ppLast = None
  /\ displayPartners = RenderPartnerGrid(FOUNDING_PARTNERS, <<>>)
  /\ contributingPartners = <<>>
  /\ totalContributed = 0

\* the store emits a snapshot of the partners collection
PartnersEmit ==
  /\ ppListener = "listening"
  /\ ppEmitted < MaxEmitted
  /\ \E data \in PartnerSnapshots : ppPending' = Append(ppPending, data)
  /\ ppEmitted' = ppEmitted + 1
  /\ UNCHANGED << firestorePartners, ppLoading, ppListener, ppSubscribes, ppLast,
                  displayPartners, contributingPartners, totalContributed >>
  /\ UNCHANGED ppOthers

\* lines 57-60: the snapshot callback
PartnersOnSnapshot ==
  /\ ppListener = "listening"
  /\ ppPending # <<>>
  /\ firestorePartners' = Head(ppPending)
  /\ ppLoading' = FALSE
  /\ ppLast' = Some(Head(ppPending))
  /\ ppPending' = Tail(ppPending)
  /\ PartnersRender(Head(ppPending))
  /\ UNCHANGED << ppListener, ppEmitted, ppSubscribes >>
  /\ UNCHANGED ppOthers

\* line 61: the error callback; the listener receives nothing afterwards
PartnersOnError ==
  /\ ppListener = "listening"
  /\ ppLoading' = FALSE
  /\ ppListener' = "errored"
  /\ ppPending' = <<>>
  /\ UNCHANGED << firestorePartners, ppEmitted, ppSubscribes, ppLast,
                  displayPartners, contributingPartners, totalContributed >>
  /\ UNCHANGED ppOthers

\* line 62: the effect's clean-up
PartnersUnmount ==
  /\ ppListener # "unsubscribed"
  /\ ppListener' = "unsubscribed"
  /\ ppPending' = <<>>
  /\ UNCHANGED << firestorePartners, ppLoading, ppEmitted, ppSubscribes, ppLast,
                  displayPartners, contributingPartners, totalContributed >>
  /\ UNCHANGED ppOthers

\* ------------------------------------------------------------------------
\* Public completed-projects page: src/unnamed/part_002, lines 1-440
\* A date string is <<>> (the empty string) or <<year, month, day>>.
\* ------------------------------------------------------------------------

\* days from 1970-01-01 to the civil date y-m-d
DaysFromCivil(y, m, d) ==
  LET yy  == IF m <= 2 THEN y - 1 ELSE y
      era == yy \div 400
      yoe == yy - era * 400
      mp  == IF m > 2 THEN m - 3 ELSE m + 9
      doy == (153 * mp + 2) \div 5 + d - 1
      doe == yoe * 365 + yoe \div 4 - yoe \div 100 + doy
  IN  era * 146097 + doe - 719468

\* new Date("YYYY-MM-DD").getTime(), in days: a date-only string parses to
\* midnight UTC, so the milliseconds are this number times 86400000
getTime(date) == DaysFromCivil(date[1], date[2], date[3])

CompletionOn(date) == Some([ completedDate |-> Some(date), completionStory |-> "done" ])

\* the documents the projects collection may hold
SchoolProject ==
  [ id |-> "school", title |-> "School Roof", description |-> "roof",
    category |-> "education", goal |-> 100, raised |-> Some(120),
    supporters |-> Some(5), image |-> "school.png",
    isCompleted |-> TRUE, isParent |-> FALSE,
    completionData |-> CompletionOn(<<2024, 3, 1>>), subProjects |-> None ]

WaterProgram ==
  [ id |-> "water", title |-> "Water Program", description |-> "wells",
    category |-> "water", goal |-> 300, raised |-> Some(90),
    supporters |-> Some(7), image |-> "water.png",
    isCompleted |-> FALSE, isParent |-> TRUE,
    completionData |-> None,
    subProjects |-> Some(<<
      [ id |-> "sub_a", title |-> "Well A", description |-> "", communityName |-> Some("Kano"),
        goal |-> 100, raised |-> 100, isCompleted |-> TRUE,
        completionData |-> CompletionOn(<<2024, 1, 1>>) ],
      [ id |-> "sub_b", title |-> "Well B", description |-> "second well", communityName |-> Some("Jos"),
        goal |-> 100, raised |-> 10, isCompleted |-> FALSE, completionData |-> None ],
      [ id |-> "sub_c", title |-> "Well C", description |-> "third well", communityName |-> None,
        goal |-> 100, raised |-> 100, isCompleted |-> TRUE, completionData |-> None ] >>) ]

FoodDrive ==
  [ id |-> "food", title |-> "Food Drive", description |-> "meals",
    category |-> "food", goal |-> 50, raised |-> Some(50),
    supporters |-> Some(3), image |-> "food.png",
    isCompleted |-> TRUE, isParent |-> TRUE,
    completionData |-> CompletionOn(<<2025, 6, 1>>),
    subProjects |-> Some(<<
      [ id |-> "sub_d", title |-> "Kitchen", description |-> "kitchen", communityName |-> Some("Zaria"),
        goal |-> 50, raised |-> 50, isCompleted |-> TRUE,
        completionData |-> CompletionOn(<<1969, 12, 31>>) ] >>) ]

ClinicProject ==
  [ id |-> "clinic", title |-> "Clinic", description |-> "beds",
    category |-> "health", goal |-> 80, raised |-> None,
    supporters |-> None, image |-> "clinic.png",
    isCompleted |-> TRUE, isParent |-> FALSE,
    completionData |-> Some([ completedDate |-> Some(<<>>), completionStory |-> "" ]),
    subProjects |-> Some(<<
      [ id |-> "sub_e", title |-> "Ward", description |-> "", communityName |-> Some("Bida"),
        goal |-> 40, raised |-> 40, isCompleted |-> TRUE,
        completionData |-> CompletionOn(<<2023, 5, 5>>) ] >>) ]

ProjectOrder == << SchoolProject, WaterProgram, FoodDrive, ClinicProject >>

Reverse(s) == [ i \in 1..Len(s) |-> s[Len(s) + 1 - i] ]

\* the sub-sequence of s at the positions in I
Pick(s, I) == SelectSeq([ i \in 1..Len(s) |-> IF i \in I THEN Some(s[i]) ELSE None ],
                        LAMBDA o : o # None)

SubSeqsOf(s) == { [ k \in 1..Len(Pick(s, I)) |-> Pick(s, I)[k][1] ] : I \in SUBSET (1..Len(s)) }

\* the query is ordered by updatedAt, which every write changes
ProjectSnapshots == SubSeqsOf(ProjectOrder) \cup SubSeqsOf(Reverse(ProjectOrder))

\* lines 85-96: the item of a completed top-level project
TopLevelItem(data) ==
  [ id |-> << data.id >>, title |-> data.title, description |-> data.description,
    category |-> data.category, goal |-> data.goal, raised |-> data.raised,
    supporters |-> data.supporters, image |-> data.image,
    completionData |-> data.completionData,
    parentTitle |-> None, communityName |-> None, isSubProject |-> FALSE ]

SubProjectItemMutant(data, sub) ==
  [ id |-> << data.id, sub.id >>, title |-> sub.title,
    description |-> IF sub.description # "" THEN sub.description ELSE data.description,
    category |-> data.category, goal |-> sub.goal, raised |-> Some(sub.raised),
    supporters |-> None, image |-> data.image,
    completionData |-> sub.completionData,
    parentTitle |-> Some(data.title), communityName |-> sub.communityName,
    isSubProject |-> TRUE ]

\* lines 104-118: the item of a completed sub-project
SubProjectItem(data, sub) ==
  [ id |-> << data.id, sub.id >>, title |-> sub.title,
    description |-> IF sub.description # "" THEN sub.description ELSE data.description,
    category |-> data.category, goal |-> sub.goal, raised |-> Some(sub.raised),
    supporters |-> data.supporters, image |-> data.image,
    completionData |-> sub.completionData,
    parentTitle |-> Some(data.title), communityName |-> sub.communityName,
    isSubProject |-> TRUE ]

ItemsOfDocMutant(data) ==
  (IF data.isCompleted /\ ~data.isParent THEN << TopLevelItem(data) >> ELSE <<>>)
  \o
  (IF data.isParent /\ data.subProjects # None
   THEN [ k \in 1..Len(data.subProjects[1]) |-> SubProjectItem(data, data.subProjects[1][k]) ]
   ELSE <<>>)

\* lines 80-120: the items one document contributes
ItemsOfDoc(data) ==
  (IF data.isCompleted /\ ~data.isParent THEN << TopLevelItem(data) >> ELSE <<>>)
  \o
  (IF data.isParent /\ data.subProjects # None
   THEN LET done == SelectSeq(data.subProjects[1], LAMBDA sub : sub.isCompleted)
        IN  [ k \in 1..Len(done) |-> SubProjectItem(data, done[k]) ]
   ELSE <<>>)

\* lines 78-121: snapshot.docs.forEach
RECURSIVE Flatten(_)
Flatten(docs) ==
  IF docs = <<>> THEN <<>> ELSE ItemsOfDoc(Head(docs)) \o Flatten(Tail(docs))

\* lines 125-126: the sort key of an item
SortDate(item) ==
  IF /\ item.completionData # None
     /\ item.completionData[1].completedDate # None
     /\ item.completionData[1].completedDate[1] # <<>>
  THEN getTime(item.completionData[1].completedDate[1])
  ELSE 0

InsertByDateMutant(sorted, x) == << x >> \o sorted

\* the place of x in a list sorted by date descending, after its equals
InsertByDate(sorted, x) ==
  LET n == Cardinality({ i \in 1..Len(sorted) : SortDate(sorted[i]) >= SortDate(x) })
  IN  SubSeq(sorted, 1, n) \o << x >> \o SubSeq(sorted, n + 1, Len(sorted))

\* lines 124-128: items.sort((a, b) => dateB - dateA), a stable sort
RECURSIVE SortByDateDesc(_)
SortByDateDesc(items) ==
  IF items = <<>> THEN <<>>
  ELSE InsertByDate(SortByDateDesc(SubSeq(items, 1, Len(items) - 1)), items[Len(items)])

\* the total that counts the items of top-level projects only
RECURSIVE SumSupportersMutant(_)
SumSupportersMutant(items) ==
  IF items = <<>> THEN 0
  ELSE SumSupportersMutant(SubSeq(items, 1, Len(items) - 1))
       + (IF items[Len(items)].isSubProject THEN 0 ELSE OrZero(items[Len(items)].supporters))

\* line 160: completedItems.reduce((sum, p) => sum + (p.supporters || 0), 0)
RECURSIVE SumSupporters(_)
SumSupporters(items) ==
  IF items = <<>> THEN 0
  ELSE SumSupporters(SubSeq(items, 1, Len(items) - 1)) + OrZero(items[Len(items)].supporters)

\* line 160, as rendered at line 198 from the state of the page
totalSupporters == SumSupporters(completedItems)

InitCompletedPage ==
  /\ completedItems = <<>>
  /\ cpLoading = TRUE
  /\ cpListener = "listening"
  /\ cpPending = <<>>
  /\ cpEmitted = 0
  /\ cpSubscribes = 1
  /\ cpLast = None

\* the store emits a snapshot of the projects collection
CompletedEmit ==
  /\ cpListener = "listening"
  /\ cpEmitted < MaxEmitted
  /\ \E data \in ProjectSnapshots : cpPending' = Append(cpPending, data)
  /\ cpEmitted' = cpEmitted + 1
  /\ UNCHANGED << completedItems, cpLoading, cpListener, cpSubscribes, cpLast >>
  /\ UNCHANGED cpOthers

\* lines 77-131: the snapshot callback
CompletedOnSnapshot ==
  /\ cpListener = "listening"
  /\ cpPending # <<>>
  /\ completedItems' = SortByDateDesc(Flatten(Head(cpPending)))
  /\ cpLoading' = FALSE
  /\ cpLast' = Some(Head(cpPending))
  /\ cpPending' = Tail(cpPending)
  /\ UNCHANGED << cpListener, cpEmitted, cpSubscribes >>
  /\ UNCHANGED cpOthers

CompletedOnErrorMutant ==
  /\ cpListener = "listening"
  /\ completedItems' = <<>>
  /\ cpLoading' = FALSE
  /\ cpListener' = "errored"
  /\ cpPending' = <<>>
  /\ UNCHANGED << cpEmitted, cpSubscribes, cpLast >>
  /\ UNCHANGED cpOthers

\* lines 132-135: the error callback
CompletedOnError ==
  /\ cpListener = "listening"
  /\ cpLoading' = FALSE
  /\ cpListener' = "errored"
  /\ cpPending' = <<>>
  /\ UNCHANGED << completedItems, cpEmitted, cpSubscribes, cpLast >>
  /\ UNCHANGED cpOthers

\* line 137: the effect's clean-up
CompletedUnmount ==
  /\ cpListener # "unsubscribed"
  /\ cpListener' = "unsubscribed"
  /\ cpPending' = <<>>
  /\ UNCHANGED << completedItems, cpLoading, cpEmitted, cpSubscribes, cpLast >>
  /\ UNCHANGED cpOthers

\* ------------------------------------------------------------------------
\* Progress bars.  A JavaScript number is a fraction [n, d] in lowest terms
\* with d > 0; d = 0 stands for Infinity (n = 1), -Infinity (n = -1), NaN (n = 0).
\* ------------------------------------------------------------------------

Abs(x) == IF x < 0 THEN -x ELSE x

Sign(x) == IF x > 0 THEN 1 ELSE IF x < 0 THEN -1 ELSE 0

RECURSIVE GCD(_, _)
GCD(a, b) == IF b = 0 THEN a ELSE GCD(b, a % b)

\* the JavaScript number a / b
Ratio(a, b) ==
  IF b = 0 THEN [ n |-> Sign(a), d |-> 0 ]
  ELSE LET g == GCD(Abs(a), Abs(b))
       IN  [ n |-> (Sign(b) * a) \div g, d |-> Abs(b) \div g ]

Whole(k) == [ n |-> k, d |-> 1 ]

\* Math.min(x, k) for an integer k
MathMin(x, k) ==
  IF x.d = 0 THEN (IF x.n = 1 THEN Whole(k) ELSE x)
  ELSE IF x.n > k * x.d THEN Whole(k) ELSE x

\* a rendered value, with the divisors of the divisions it evaluated
Evaluated(v, divs) == [ w |-> v, divisors |-> divs ]

progressPctMutant(raised, goal) ==
  LET r == IF raised = None THEN 0 ELSE raised[1]
      g == IF goal = None THEN 1 ELSE goal[1]
  IN  IF g >= 0 THEN Evaluated(MathMin(Ratio(r * 100, g), 100), { g })
      ELSE Evaluated(Whole(0), {})

\* part_002 lines 1354-1355: progressPct = (raised = 0, goal = 1) => ...
progressPct(raised, goal) ==
  LET r == IF raised = None THEN 0 ELSE raised[1]
      g == IF goal = None THEN 1 ELSE goal[1]
  IN  IF g > 0 THEN Evaluated(MathMin(Ratio(r * 100, g), 100), { g })
      ELSE Evaluated(Whole(0), {})

\* src/app/dashboard/projects/page.tsx lines 500-502; an absent goal is not > 0
OldDashboardBarWidth(raised, goal) ==
  IF goal # None /\ goal[1] > 0
  THEN Evaluated(MathMin(Ratio(OrZero(raised) * 100, goal[1]), 100), { goal[1] })
  ELSE Evaluated(Whole(0), {})

LedgerBarWidthMutant(raised, goal) ==
  LET r == OrZero(raised)
      g == OrZero(goal)
  IN  IF g > 0 THEN Evaluated(Ratio(r * 100, g), { g })
      ELSE Evaluated(Whole(0), {})

\* part_002 lines 494-495 and 753: fetchData defaults both fields to 0
LedgerBarWidth(raised, goal) ==
  LET r == OrZero(raised)
      g == OrZero(goal)
  IN  IF g > 0 THEN Evaluated(MathMin(Ratio(r * 100, g), 100), { g })
      ELSE Evaluated(Whole(0), {})

BarPages == { "dashboard", "oldDashboard", "ledger" }

\* the two giving-circle pages draw the share of the received amount that
\* is spent: raised is the sum of the expenses (absent: no expense), goal is
\* totalReceived
AllocationPages == { "givingCircle", "adminGivingCircle" }

ProgressPages == BarPages \cup AllocationPages

\* what a page that leaves the progress block out has drawn
NotRendered == [ hidden |-> TRUE ]

\* Math.round(x): the integer nearest to x, a half going up; an infinity
\* or NaN (divisor 0) is returned as it is
MathRound(x) == IF x.d = 0 THEN x ELSE Whole((2 * x.n + x.d) \div (2 * x.d))

\* x.toFixed(1), as a number: the nearest multiple of 1/10 of the magnitude,
\* a half going up, with the sign of x
toFixed1(x) ==
  IF x.d = 0 THEN x
  ELSE LET tenths == (20 * Abs(x.n) + x.d) \div (2 * x.d)
       IN  Ratio(Sign(x.n) * tenths, 10)

\* part_002 line 1474
DashboardLabel(raised, goal) == toFixed1(progressPct(raised, goal).w)

\* src/app/dashboard/projects/page.tsx lines 491-493
OldDashboardLabel(raised, goal) ==
  IF goal # None /\ goal[1] > 0
  THEN toFixed1(Ratio(OrZero(raised) * 100, goal[1]))
  ELSE Whole(0)

LedgerLabelMutant(raised, goal) ==
  LET r == OrZero(raised)
      g == OrZero(goal)
  IN  IF g > 0 THEN MathMin(MathRound(Ratio(r * 100, g)), 100) ELSE Whole(0)

\* part_002 line 746
LedgerLabel(raised, goal) ==
  LET r == OrZero(raised)
      g == OrZero(goal)
  IN  IF g > 0 THEN MathRound(Ratio(r * 100, g)) ELSE Whole(0)

\* part_000 line 222: workspace.totalReceived > 0
GivingCircleShown(spent, received) == received # None /\ received[1] > 0

\* part_000 line 231
GivingCircleBarWidth(spent, received) ==
  IF GivingCircleShown(spent, received)
  THEN Evaluated(MathMin(Ratio(OrZero(spent) * 100, received[1]), 100), { received[1] })
  ELSE Evaluated(NotRendered, {})

\* part_000 line 226
GivingCircleLabel(spent, received) ==
  IF GivingCircleShown(spent, received)
  THEN MathMin(MathRound(Ratio(OrZero(spent) * 100, received[1])), 100)
  ELSE NotRendered

\* giving-circle/page.tsx line 330: totalReceived > 0 && expenses.length > 0
AdminGivingCircleShown(spent, received) ==
  received # None /\ received[1] > 0 /\ spent # None

\* giving-circle/page.tsx line 338
AdminGivingCircleBarWidth(spent, received) ==
  IF AdminGivingCircleShown(spent, received)
  THEN Evaluated(MathMin(Ratio(spent[1] * 100, received[1]), 100), { received[1] })
  ELSE Evaluated(NotRendered, {})

\* giving-circle/page.tsx line 333
AdminGivingCircleLabel(spent, received) ==
  IF AdminGivingCircleShown(spent, received)
  THEN MathRound(Ratio(spent[1] * 100, received[1]))
  ELSE NotRendered

RaisedValues == { -50, 0, 30, 100, 150 }

GoalValues == { -10, 0, 100, 300 }

InitProgress ==
  /\ pgRaised \in { None } \cup { Some(r) : r \in RaisedValues }
  /\ pgGoal \in { None } \cup { Some(g) : g \in GoalValues }
  /\ pgWidth = [ page \in ProgressPages |-> None ]
  /\ pgLabel = [ page \in ProgressPages |-> None ]
  /\ pgDivisors = {}

IdleProgress ==
  /\ pgRaised = None
  /\ pgGoal = None
  /\ pgWidth = [ page \in ProgressPages |-> None ]
  /\ pgLabel = [ page \in ProgressPages |-> None ]
  /\ pgDivisors = {}

\* one render of the progress block of a page: the bar and its label
DrawBar(page, e, label) ==
  /\ pgWidth[page] = None
  /\ pgWidth' = [ pgWidth EXCEPT ![page] = Some(e.w) ]
  /\ pgLabel' = [ pgLabel EXCEPT ![page] = Some(label) ]
  /\ pgDivisors' = pgDivisors \cup e.divisors
  /\ UNCHANGED << pgRaised, pgGoal >>
  /\ UNCHANGED pgOthers

\* part_002 lines 1471-1478
RenderDashboardBar ==
  DrawBar("dashboard", progressPct(pgRaised, pgGoal), DashboardLabel(pgRaised, pgGoal))

\* src/app/dashboard/projects/page.tsx lines 487-506
RenderOldDashboardBar ==
  DrawBar("oldDashboard", OldDashboardBarWidth(pgRaised, pgGoal),
          OldDashboardLabel(pgRaised, pgGoal))

\* part_002 lines 743-756
RenderLedgerBar ==
  DrawBar("ledger", LedgerBarWidth(pgRaised, pgGoal), LedgerLabel(pgRaised, pgGoal))

\* part_000 lines 222-235
RenderGivingCircleBar ==
  DrawBar("givingCircle", GivingCircleBarWidth(pgRaised, pgGoal),
          GivingCircleLabel(pgRaised, pgGoal))

\* giving-circle/page.tsx lines 330-341
RenderAdminGivingCircleBar ==
  DrawBar("adminGivingCircle", AdminGivingCircleBarWidth(pgRaised, pgGoal),
          AdminGivingCircleLabel(pgRaised, pgGoal))

\* ------------------------------------------------------------------------
\* Rollups
\* ------------------------------------------------------------------------

\* the records a rolled-up list may hold
RollupDocs ==
  { [ id |-> "t1", type |-> "income",  amount |-> Some(100) ],
    [ id |-> "t2", type |-> "income",  amount |-> Some(250) ],
    [ id |-> "t3", type |-> "expense", amount |-> Some(40) ],
    [ id |-> "t4", type |-> "income",  amount |-> None ] }

\* part_002 lines 519 and 552: amount: data.amount || 0
LedgerTransaction(data) == [ id |-> data.id, type |-> data.type, amount |-> OrZero(data.amount) ]

SumOfMutant(amounts) == IF amounts = <<>> THEN 0 ELSE amounts[Len(amounts)]

\* reduce((sum, t) => sum + t.amount, 0)
RECURSIVE SumOf(_)
SumOf(amounts) ==
  IF amounts = <<>> THEN 0
  ELSE SumOf(SubSeq(amounts, 1, Len(amounts) - 1)) + amounts[Len(amounts)]

\* part_002 lines 574-580: totalIncome and totalExpenses, with the row count
LedgerTotals(docs) ==
  LET transactions == [ i \in 1..Len(docs) |-> LedgerTransaction(docs[i]) ]
      income   == SelectSeq(transactions, LAMBDA t : t.type = "income")
      expenses == SelectSeq(transactions, LAMBDA t : t.type = "expense")
  IN  [ totalIncome   |-> SumOf([ i \in 1..Len(income) |-> income[i].amount ]),
        totalExpenses |-> SumOf([ i \in 1..Len(expenses) |-> expenses[i].amount ]),
        count         |-> Len(transactions) ]

\* src/app/dashboard/partners/page.tsx line 127, with partners.length
PartnersTotals(docs) ==
  [ totalContributed |-> SumOf([ i \in 1..Len(docs) |-> OrZero(docs[i].amount) ]),
    count            |-> Len(docs) ]

InitRollup ==
  /\ rlBase \in Arrangements(RollupDocs)
  /\ rlList = rlBase
  /\ rlLedger = None
  /\ rlPartners = None

IdleRollup ==
  /\ rlBase = <<>>
  /\ rlList = <<>>
  /\ rlLedger = None
  /\ rlPartners = None

\* the same records reach a page in another order
RollupReorder ==
  /\ \E i \in 1..(Len(rlList) - 1) :
       rlList' = [ rlList EXCEPT ![i] = rlList[i + 1], ![i + 1] = rlList[i] ]
  /\ UNCHANGED << rlBase, rlLedger, rlPartners >>
  /\ UNCHANGED rlOthers

\* LedgerPage renders its totals
LedgerRollup ==
  /\ rlLedger' = Some([ reordered |-> rlList # rlBase, totals |-> LedgerTotals(rlList) ])
  /\ rlLedger' # rlLedger
  /\ UNCHANGED << rlBase, rlList, rlPartners >>
  /\ UNCHANGED rlOthers

\* AdminPartnersPage renders its total
PartnersRollup ==
  /\ rlPartners' = Some([ reordered |-> rlList # rlBase, totals |-> PartnersTotals(rlList) ])
  /\ rlPartners' # rlPartners
  /\ UNCHANGED << rlBase, rlList, rlLedger >>
  /\ UNCHANGED rlOthers

\* ------------------------------------------------------------------------
\* Completion form clean-up
\* ------------------------------------------------------------------------

\* images and testimonials one completion form may hold
MaxImages == 3

MaxTestimonials == 2

WhiteSpace == { " " }

\* String.prototype.trim
RECURSIVE trim(_)
trim(s) ==
  IF s = <<>> THEN s
  ELSE IF Head(s) \in WhiteSpace THEN trim(Tail(s))
  ELSE IF s[Len(s)] \in WhiteSpace THEN trim(SubSeq(s, 1, Len(s) - 1))
  ELSE s

Today == << 2026, 1, 15 >>

EmptyTestimonial == [ name |-> <<>>, text |-> <<>>, role |-> <<>> ]

\* part_002 lines 1032-1040
defaultCompletionForm ==
  [ completedDate   |-> Today,
    completionStory |-> <<>>,
    beforeImages    |-> << <<>> >>,
    afterImages     |-> << <<>> >>,
    progressImages  |-> << <<>> >>,
    testimonials    |-> << EmptyTestimonial >>,
    impactStats     |-> [ peopleHelped |-> 0, itemsDistributed |-> 0, customMetric |-> <<>> ] ]

KeepTestimonialMutant(t) == trim(t.name) # <<>> \/ trim(t.text) # <<>>

\* part_002 line 1126: t => t.name.trim() && t.text.trim()
KeepTestimonial(t) == trim(t.name) # <<>> /\ trim(t.text) # <<>>

KeepImageMutant(u) == u # <<>>

\* part_002 line 1123: u => u.trim()
KeepImage(u) == trim(u) # <<>>

\* part_002 lines 1120-1128
buildCleanCompletionData(form) ==
  [ completedDate   |-> form.completedDate,
    completionStory |-> form.completionStory,
    beforeImages    |-> SelectSeq(form.beforeImages, KeepImage),
    afterImages     |-> SelectSeq(form.afterImages, KeepImage),
    progressImages  |-> SelectSeq(form.progressImages, KeepImage),
    testimonials    |-> SelectSeq(form.testimonials, KeepTestimonial),
    impactStats     |-> form.impactStats ]

\* src/app/dashboard/projects/page.tsx lines 298-306
cleanCompletionData(form) ==
  [ completedDate   |-> form.completedDate,
    completionStory |-> form.completionStory,
    beforeImages    |-> SelectSeq(form.beforeImages, LAMBDA url : trim(url) # <<>>),
    afterImages     |-> SelectSeq(form.afterImages, LAMBDA url : trim(url) # <<>>),
    progressImages  |-> SelectSeq(form.progressImages, LAMBDA url : trim(url) # <<>>),
    testimonials    |-> SelectSeq(form.testimonials,
                                  LAMBDA t : trim(t.name) # <<>> /\ trim(t.text) # <<>>),
    impactStats     |-> form.impactStats ]

\* what an administrator may type into an image URL field
ImageInputs == { <<>>, << " " >>, << "h", "1" >>, << " ", "h", "2" >> }

NameInputs == { <<>>, << " " >>, << "A", "n", "n" >> }

TextInputs == { <<>>, << "h", "i" >> }

TestimonialInputs ==
  { [ name |-> n, text |-> t, role |-> <<>> ] : n \in NameInputs, t \in TextInputs }

SeqsUpTo(S, n) == UNION { [ 1..k -> S ] : k \in 0..n }

ImageFields == { "beforeImages", "afterImages", "progressImages" }

\* the form with the story its required input asks for
StoryTold == [ defaultCompletionForm EXCEPT !.completionStory = << "o", "k" >> ]

\* a form as the field handlers (add, update, remove) can leave it
InitCleanForm ==
  /\ \/ \E f \in ImageFields, a \in SeqsUpTo(ImageInputs, MaxImages) :
          cfForm = [ StoryTold EXCEPT ![f] = a ]
     \/ \E ts \in SeqsUpTo(TestimonialInputs, MaxTestimonials) :
          cfForm = [ StoryTold EXCEPT !.testimonials = ts ]
  /\ cfClean = None
  /\ cfCleanOld = None
  /\ cfAgain = None
  /\ cfAgainOld = None

IdleCleanForm ==
  /\ cfForm = defaultCompletionForm
  /\ cfClean = None
  /\ cfCleanOld = None
  /\ cfAgain = None
  /\ cfAgainOld = None

\* part_002 line 1323: handleCompletionSubmit builds the payload
BuildClean ==
  /\ cfClean = None
  /\ cfClean' = Some(buildCleanCompletionData(cfForm))
  /\ UNCHANGED << cfForm, cfCleanOld, cfAgain, cfAgainOld >>
  /\ UNCHANGED cfOthers

\* src/app/dashboard/projects/page.tsx line 298
BuildCleanOld ==
  /\ cfCleanOld = None
  /\ cfCleanOld' = Some(cleanCompletionData(cfForm))
  /\ UNCHANGED << cfForm, cfClean, cfAgain, cfAgainOld >>
  /\ UNCHANGED cfOthers

\* ------------------------------------------------------------------------
\* The store (Firestore) and what every dashboard page has in common
\* ------------------------------------------------------------------------

Ts == "serverTimestamp"

TodayIso == "2026-01-15"

\* JavaScript object spread { ...base, ...over }
Spread(base, over) == over @@ base

\* a document is kept as the record the listeners make of it,
\* { id: d.id, ...d.data() }: where the data has a field id of its own, the
\* record shows that field, and the id of the document is kept as path
DocId(d) == IF "path" \in DOMAIN d THEN d.path ELSE d.id

Added(w) ==
  IF "id" \in DOMAIN w.data THEN Spread(w.data, [ path |-> w.id ])
  ELSE Spread(w.data, [ id |-> w.id ])

HasDoc(coll, id) == \E i \in 1..Len(coll) : DocId(coll[i]) = id

ApplyWriteMutant(coll, w) ==
  CASE w.op = "addDoc"    -> << Added(w) >> \o coll
    [] w.op = "updateDoc" -> [ i \in 1..Len(coll) |->
                                 IF DocId(coll[i]) = w.id
                                 THEN Spread(w.data, coll[i]) ELSE coll[i] ]
    [] w.op = "deleteDoc" -> SelectSeq(coll, LAMBDA d : DocId(d) # w.id)

\* addDoc, updateDoc and deleteDoc applied to the documents of a collection
ApplyWrite(coll, w) ==
  CASE w.op = "addDoc"    -> << Added(w) >> \o coll
    [] w.op = "updateDoc" -> [ i \in 1..Len(coll) |->
                                 IF DocId(coll[i]) = w.id
                                 THEN Spread(coll[i], w.data) ELSE coll[i] ]
    [] w.op = "deleteDoc" -> SelectSeq(coll, LAMBDA d : DocId(d) # w.id)

WriteCall(handler, op, coll, id, data) ==
  [ handler |-> handler, op |-> op, coll |-> coll, id |-> id, data |-> data ]

NoData == [ f \in {} |-> Ts ]

Step(handler, outcome, alert) == [ handler |-> handler, outcome |-> outcome, alert |-> alert ]

NoStep == Step("none", "none", FALSE)

\* rec.f || dflt for a text field, rec.f || dflt for a number, rec.f ?? dflt for a flag
StrOr(rec, f, dflt) == IF f \in DOMAIN rec /\ rec[f] # "" THEN rec[f] ELSE dflt

NumOr(rec, f, dflt) == IF f \in DOMAIN rec /\ rec[f] # 0 THEN rec[f] ELSE dflt

FlagOr(rec, f, dflt) == IF f \in DOMAIN rec THEN rec[f] ELSE dflt

SeqOr(rec, f) == IF f \in DOMAIN rec THEN rec[f] ELSE <<>>

\* the mounted page is on screen with its buttons: not behind the spinner
Interactive(page) == route = page /\ listener # "unsubscribed" /\ ~loading

\* ------------------------------------------------------------------------
\* Giving-circle dashboard: src/app/dashboard/giving-circle/page.tsx
\* ------------------------------------------------------------------------

Expense(id, description, amount, note) ==
  [ id |-> id, description |-> description, amount |-> amount,
    date |-> "2026-01-02", note |-> note ]

AcmeWorkspace ==
  [ id |-> << "w", 1 >>, name |-> "Acme", logo |-> "acme.png", totalReceived |-> 500,
    date |-> "2026-01-01", note |-> "",
    expenses |-> << Expense(<< "exp", 1 >>, "filters", 200, ""),
                    Expense(<< "exp", 2 >>, "pipes", 100, "paid") >>,
    createdAt |-> Ts, updatedAt |-> Ts ]

BetaWorkspace ==
  [ id |-> << "w", 2 >>, name |-> "Beta", logo |-> "", totalReceived |-> 0,
    date |-> "2026-01-03", note |-> "pledge",
    expenses |-> <<>>,
    createdAt |-> Ts, updatedAt |-> Ts ]

\* line 30
defaultWorkspaceForm ==
  [ name |-> "", logo |-> "", totalReceived |-> 0, date |-> TodayIso, note |-> "" ]

\* line 31
defaultExpenseForm ==
  [ description |-> "", amount |-> 0, date |-> TodayIso, note |-> "" ]

\* what an administrator may type into the workspace form
WorkspaceInputs ==
  { [ name |-> "", logo |-> "g.png", totalReceived |-> 300, date |-> "2026-02-01", note |-> "q1" ],
    [ name |-> "Gamma", logo |-> "g.png", totalReceived |-> 300, date |-> "2026-02-01", note |-> "q1" ] }

\* what an administrator may type into the expense form
ExpenseInputs ==
  { [ description |-> "", amount |-> 40, date |-> "2026-02-02", note |-> "n" ],
    [ description |-> "rent", amount |-> 40, date |-> "2026-02-02", note |-> "n" ] }

\* lines 39-60: the state of the page as constructed
GcConstructed ==
  [ workspaces          |-> <<>>,
    showWorkspaceModal  |-> FALSE,
    editingWorkspace    |-> None,
    workspaceForm       |-> defaultWorkspaceForm,
    showExpenseModal    |-> FALSE,
    expenseParent       |-> None,
    editingExpense      |-> None,
    expenseForm         |-> defaultExpenseForm,
    showDeleteWorkspace |-> FALSE,
    deletingWorkspace   |-> None,
    showDeleteExpense   |-> FALSE,
    deletingExpense     |-> None ]

GcNoModal ==
  /\ ~gc.showWorkspaceModal
  /\ ~gc.showExpenseModal
  /\ ~(gc.showDeleteWorkspace /\ gc.deletingWorkspace # None)
  /\ ~(gc.showDeleteExpense /\ gc.deletingExpense # None)

GcOnSnapshotMutant ==
  /\ route = "giving-circle"
  /\ listener = "listening"
  /\ pending # <<>>
  /\ gc' = [ gc EXCEPT !.workspaces = Head(pending) \o @ ]
  /\ loading' = FALSE
  /\ last' = Some(Head(pending))
  /\ pending' = Tail(pending)
  /\ event' = NoStep
  /\ UNCHANGED << store, nextId, writes, inflight, route, visit, listener, subscribes, saving, deleting >>
  /\ UNCHANGED << pr, pa, od, publicVars >>

\* lines 64-66: the snapshot callback
GcOnSnapshot ==
  /\ route = "giving-circle"
  /\ listener = "listening"
  /\ pending # <<>>
  /\ gc' = [ gc EXCEPT !.workspaces = Head(pending) ]
  /\ loading' = FALSE
  /\ last' = Some(Head(pending))
  /\ pending' = Tail(pending)
  /\ event' = NoStep
  /\ UNCHANGED << store, nextId, writes, inflight, route, visit, listener, subscribes, saving, deleting >>
  /\ UNCHANGED << pr, pa, od, publicVars >>

\* line 67: the error callback; the listener receives nothing afterwards
GcOnError ==
  /\ route = "giving-circle"
  /\ listener = "listening"
  /\ loading' = FALSE
  /\ listener' = "errored"
  /\ pending' = <<>>
  /\ event' = NoStep
  /\ UNCHANGED << store, nextId, writes, inflight, route, visit, last, subscribes, saving, deleting >>
  /\ UNCHANGED << pageVars, publicVars >>

\* lines 80-88
openWorkspaceModal ==
  /\ Interactive("giving-circle")
  /\ visit = "workspaceForm"
  /\ GcNoModal
  /\ \E target \in { None } \cup { Some(w) : w \in Range(gc.workspaces) } :
       gc' = [ gc EXCEPT
               !.editingWorkspace = target,
               !.workspaceForm =
                  IF target # None
                  THEN [ name |-> target[1].name, logo |-> StrOr(target[1], "logo", ""),
                         totalReceived |-> target[1].totalReceived,
                         date |-> StrOr(target[1], "date", ""),
                         note |-> StrOr(target[1], "note", "") ]
                  ELSE defaultWorkspaceForm,
               !.showWorkspaceModal = TRUE ]
  /\ event' = NoStep
  /\ UNCHANGED << clickOthers, pr, pa, od, publicVars >>

\* lines 363-390: the inputs of the workspace form
setWorkspaceForm ==
  /\ Interactive("giving-circle")
  /\ gc.showWorkspaceModal
  /\ ~saving
  /\ \E f \in WorkspaceInputs :
       /\ f # gc.workspaceForm
       /\ gc' = [ gc EXCEPT !.workspaceForm = f ]
  /\ event' = NoStep
  /\ UNCHANGED << clickOthers, pr, pa, od, publicVars >>

\* lines 356 and 403
closeWorkspaceModal ==
  /\ Interactive("giving-circle")
  /\ gc.showWorkspaceModal
  /\ ~saving
  /\ gc' = [ gc EXCEPT !.showWorkspaceModal = FALSE ]
  /\ event' = NoStep
  /\ UNCHANGED << clickOthers, pr, pa, od, publicVars >>

WorkspaceWriteMutant(editing, form, newId) ==
  IF editing # None
  THEN WriteCall("handleWorkspaceSubmit", "updateDoc", "workspaces", editing[1].id,
                 Spread(form, [ totalReceived |-> form.totalReceived, updatedAt |-> Ts ]))
  ELSE WriteCall("handleWorkspaceSubmit", "addDoc", "workspaces", newId,
                 Spread(form, [ totalReceived |-> form.totalReceived, expenses |-> <<>>,
                                updatedAt |-> Ts ]))

\* lines 96-104: the write handleWorkspaceSubmit issues
WorkspaceWrite(editing, form, newId) ==
  IF editing # None
  THEN WriteCall("handleWorkspaceSubmit", "updateDoc", "workspaces", editing[1].id,
                 Spread(form, [ totalReceived |-> form.totalReceived, updatedAt |-> Ts ]))
  ELSE WriteCall("handleWorkspaceSubmit", "addDoc", "workspaces", newId,
                 Spread(form, [ totalReceived |-> form.totalReceived, expenses |-> <<>>,
                                createdAt |-> Ts, updatedAt |-> Ts ]))

\* line 92
WorkspaceFormValid(form) == form.name # ""

\* lines 90-105, up to the awaited write
handleWorkspaceSubmit ==
  /\ Interactive("giving-circle")
  /\ gc.showWorkspaceModal
  /\ ~saving
  /\ IF ~WorkspaceFormValid(gc.workspaceForm)
     THEN /\ event' = Step("handleWorkspaceSubmit", "invalid", FALSE)
          /\ UNCHANGED << inflight, writes, nextId, saving >>
     ELSE /\ writes < MaxWrites
          /\ inflight' = Some(WorkspaceWrite(gc.editingWorkspace, gc.workspaceForm, << "new", nextId >>))
          /\ writes' = writes + 1
          /\ nextId' = IF gc.editingWorkspace = None THEN nextId + 1 ELSE nextId
          /\ saving' = TRUE
          /\ event' = Step("handleWorkspaceSubmit", "issued", FALSE)
  /\ UNCHANGED << store, route, visit, listener, pending, last, subscribes, loading, deleting >>
  /\ UNCHANGED << pageVars, publicVars >>

\* line 284
openDeleteWorkspace ==
  /\ Interactive("giving-circle")
  /\ visit = "delete"
  /\ GcNoModal
  /\ \E w \in Range(gc.workspaces) :
       gc' = [ gc EXCEPT !.deletingWorkspace = Some(w), !.showDeleteWorkspace = TRUE ]
  /\ event' = NoStep
  /\ UNCHANGED << clickOthers, pr, pa, od, publicVars >>

\* line 482
cancelDeleteWorkspace ==
  /\ Interactive("giving-circle")
  /\ gc.showDeleteWorkspace /\ gc.deletingWorkspace # None
  /\ ~deleting
  /\ gc' = [ gc EXCEPT !.showDeleteWorkspace = FALSE, !.deletingWorkspace = None ]
  /\ event' = NoStep
  /\ UNCHANGED << clickOthers, pr, pa, od, publicVars >>

DeleteWorkspaceWriteMutant(workspace) ==
  WriteCall("handleDeleteWorkspace", "updateDoc", "workspaces", workspace.id,
            [ expenses |-> <<>>, updatedAt |-> Ts ])

\* line 118: deleteDoc(doc(db, 'workspaces', deletingWorkspace.id))
DeleteWorkspaceWrite(workspace) ==
  WriteCall("handleDeleteWorkspace", "deleteDoc", "workspaces", workspace.id, NoData)

\* lines 114-118, up to the awaited write
handleDeleteWorkspace ==
  /\ Interactive("giving-circle")
  /\ gc.showDeleteWorkspace /\ gc.deletingWorkspace # None
  /\ ~deleting
  /\ writes < MaxWrites
  /\ inflight' = Some(DeleteWorkspaceWrite(gc.deletingWorkspace[1]))
  /\ writes' = writes + 1
  /\ deleting' = TRUE
  /\ event' = Step("handleDeleteWorkspace", "issued", FALSE)
  /\ UNCHANGED << store, nextId, route, visit, listener, pending, last, subscribes, loading, saving >>
  /\ UNCHANGED << pageVars, publicVars >>

\* lines 128-136
openExpenseModal ==
  /\ Interactive("giving-circle")
  /\ visit = "expenseForm"
  /\ GcNoModal
  /\ \E w \in Range(gc.workspaces) :
     \E target \in { None } \cup { Some(e) : e \in Range(w.expenses) } :
       gc' = [ gc EXCEPT
               !.expenseParent = Some(w),
               !.editingExpense = target,
               !.expenseForm =
                  IF target # None
                  THEN [ description |-> target[1].description, amount |-> target[1].amount,
                         date |-> StrOr(target[1], "date", ""),
                         note |-> StrOr(target[1], "note", "") ]
                  ELSE defaultExpenseForm,
               !.showExpenseModal = TRUE ]
  /\ event' = NoStep
  /\ UNCHANGED << clickOthers, pr, pa, od, publicVars >>

\* lines 432-452: the inputs of the expense form
setExpenseForm ==
  /\ Interactive("giving-circle")
  /\ gc.showExpenseModal
  /\ ~saving
  /\ \E f \in ExpenseInputs :
       /\ f # gc.expenseForm
       /\ gc' = [ gc EXCEPT !.expenseForm = f ]
  /\ event' = NoStep
  /\ UNCHANGED << clickOthers, pr, pa, od, publicVars >>

\* lines 425 and 457
closeExpenseModal ==
  /\ Interactive("giving-circle")
  /\ gc.showExpenseModal
  /\ ~saving
  /\ gc' = [ gc EXCEPT !.showExpenseModal = FALSE ]
  /\ event' = NoStep
  /\ UNCHANGED << clickOthers, pr, pa, od, publicVars >>

\* lines 143-150: the replacement expenses array
UpdatedExpenses(parent, editing, form, newId) ==
  LET current == SeqOr(parent, "expenses")
  IN  IF editing # None
      THEN [ i \in 1..Len(current) |->
               IF current[i].id = editing[1].id
               THEN Spread(Spread(current[i], form), [ amount |-> form.amount ])
               ELSE current[i] ]
      ELSE Append(current, Spread(Spread([ id |-> newId ], form), [ amount |-> form.amount ]))

\* lines 151-153
ExpenseWrite(parent, editing, form, newId) ==
  WriteCall("handleExpenseSubmit", "updateDoc", "workspaces", parent.id,
            [ expenses |-> UpdatedExpenses(parent, editing, form, newId), updatedAt |-> Ts ])

\* line 140
ExpenseFormValid(parent, form) == parent # None /\ form.description # ""

\* lines 138-153, up to the awaited write
handleExpenseSubmit ==
  /\ Interactive("giving-circle")
  /\ gc.showExpenseModal
  /\ ~saving
  /\ IF ~ExpenseFormValid(gc.expenseParent, gc.expenseForm)
     THEN /\ event' = Step("handleExpenseSubmit", "invalid", FALSE)
          /\ UNCHANGED << inflight, writes, nextId, saving >>
     ELSE /\ writes < MaxWrites
          /\ inflight' = Some(ExpenseWrite(gc.expenseParent[1], gc.editingExpense,
                                           gc.expenseForm, << "new", nextId >>))
          /\ writes' = writes + 1
          /\ nextId' = IF gc.editingExpense = None THEN nextId + 1 ELSE nextId
          /\ saving' = TRUE
          /\ event' = Step("handleExpenseSubmit", "issued", FALSE)
  /\ UNCHANGED << store, route, visit, listener, pending, last, subscribes, loading, deleting >>
  /\ UNCHANGED << pageVars, publicVars >>

\* line 319
openDeleteExpense ==
  /\ Interactive("giving-circle")
  /\ visit = "delete"
  /\ GcNoModal
  /\ \E w \in Range(gc.workspaces) : \E e \in Range(w.expenses) :
       gc' = [ gc EXCEPT !.deletingExpense = Some([ expense |-> e, workspace |-> w ]),
                         !.showDeleteExpense = TRUE ]
  /\ event' = NoStep
  /\ UNCHANGED << clickOthers, pr, pa, od, publicVars >>

\* line 505
cancelDeleteExpense ==
  /\ Interactive("giving-circle")
  /\ gc.showDeleteExpense /\ gc.deletingExpense # None
  /\ ~deleting
  /\ gc' = [ gc EXCEPT !.showDeleteExpense = FALSE, !.deletingExpense = None ]
  /\ event' = NoStep
  /\ UNCHANGED << clickOthers, pr, pa, od, publicVars >>

\* lines 166-169
DeleteExpenseWrite(target) ==
  WriteCall("handleDeleteExpense", "updateDoc", "workspaces", target.workspace.id,
            [ expenses |-> SelectSeq(target.workspace.expenses,
                                     LAMBDA e : e.id # target.expense.id),
              updatedAt |-> Ts ])

\* lines 162-169, up to the awaited write
handleDeleteExpense ==
  /\ Interactive("giving-circle")
  /\ gc.showDeleteExpense /\ gc.deletingExpense # None
  /\ ~deleting
  /\ writes < MaxWrites
  /\ inflight' = Some(DeleteExpenseWrite(gc.deletingExpense[1]))
  /\ writes' = writes + 1
  /\ deleting' = TRUE
  /\ event' = Step("handleDeleteExpense", "issued", FALSE)
  /\ UNCHANGED << store, nextId, route, visit, listener, pending, last, subscribes, loading, saving >>
  /\ UNCHANGED << pageVars, publicVars >>

\* what the page does after its awaited write resolved (ok) or was rejected
GcContinued(handler, ok) ==
  CASE handler = "handleWorkspaceSubmit" ->
         IF ok THEN [ gc EXCEPT !.showWorkspaceModal = FALSE ] ELSE gc
    [] handler = "handleDeleteWorkspace" ->
         IF ok THEN [ gc EXCEPT !.showDeleteWorkspace = FALSE, !.deletingWorkspace = None ] ELSE gc
    [] handler = "handleExpenseSubmit" ->
         IF ok THEN [ gc EXCEPT !.showExpenseModal = FALSE ] ELSE gc
    [] handler = "handleDeleteExpense" ->
         IF ok THEN [ gc EXCEPT !.showDeleteExpense = FALSE, !.deletingExpense = None ] ELSE gc

\* ------------------------------------------------------------------------
\* Projects dashboard: src/unnamed/part_002 lines 957-1990
\* ------------------------------------------------------------------------

PhaseOne ==
  [ id |-> << "sub", 1 >>, title |-> "Phase 1", description |-> "", communityName |-> "Kano",
    goal |-> 300, raised |-> 300, isCompleted |-> TRUE,
    completionData |-> [ completedDate |-> << 2025, 6, 1 >>,
                         completionStory |-> << "d", "o", "n", "e" >> ],
    createdAt |-> "2025-01-01T00:00:00.000Z" ]

PhaseTwo ==
  [ id |-> << "sub", 2 >>, title |-> "Phase 2", goal |-> 200, raised |-> 0,
    isCompleted |-> FALSE ]

WellsProject ==
  [ id |-> << "p", 1 >>, title |-> "Wells", subtitle |-> "clean water", tagline |-> "",
    description |-> "dig wells", callToAction |-> "", category |-> "water",
    goal |-> 1000, raised |-> 400, supporters |-> 12, image |-> "/w.png", tag |-> "",
    isActive |-> TRUE, isLive |-> FALSE, isCompleted |-> FALSE, isParent |-> TRUE,
    subProjects |-> << PhaseOne, PhaseTwo >>, createdAt |-> Ts, updatedAt |-> Ts ]

\* a document of before the sub-projects, without the optional fields
LibraryProject ==
  [ id |-> << "p", 2 >>, title |-> "Library", description |-> "books",
    category |-> "education", goal |-> 500, raised |-> 500, isActive |-> TRUE,
    isLive |-> TRUE ]

\* lines 1021-1026
defaultFormData ==
  [ title |-> "", subtitle |-> "", tagline |-> "", description |-> "",
    callToAction |-> "", category |-> "water", goal |-> 0, raised |-> 0,
    supporters |-> 0, image |-> "", tag |-> "",
    isActive |-> TRUE, isLive |-> FALSE, isCompleted |-> FALSE, isParent |-> FALSE ]

\* lines 1028-1030
defaultSubProjectForm ==
  [ title |-> "", description |-> "", communityName |-> "", goal |-> 0, raised |-> 0 ]

\* what an administrator may type into the project form: one complete form,
\* the same with the Completed box ticked (line 1706), and the forms that
\* lack a title, lack a description, or have a goal <= 0
ProjectInputs ==
  LET full == [ defaultFormData EXCEPT !.title = "Clinic", !.description = "build a clinic",
                                       !.goal = 800, !.raised = 10, !.isParent = TRUE ]
  IN  { full,
        [ full EXCEPT !.isCompleted = TRUE ],
        [ full EXCEPT !.title = "" ],
        [ full EXCEPT !.description = "" ],
        [ full EXCEPT !.goal = 0 ] }

\* what an administrator may type into the sub-project form
SubProjectInputs ==
  LET full == [ title |-> "Phase 3", description |-> "next", communityName |-> "Jos",
                goal |-> 150, raised |-> 5 ]
  IN  { full,
        [ full EXCEPT !.title = "" ],
        [ full EXCEPT !.goal = -5 ] }

\* lines 1043-1066: the state of the page as constructed
PrConstructed ==
  [ projects           |-> <<>>,
    showModal          |-> FALSE,
    editingProject     |-> None,
    formData           |-> defaultFormData,
    showSubModal       |-> FALSE,
    subModalParent     |-> None,
    editingSubProject  |-> None,
    subFormData        |-> defaultSubProjectForm,
    showDeleteModal    |-> FALSE,
    deletingProject    |-> None,
    showDeleteSubModal |-> FALSE,
    deletingSubProject |-> None,
    showCompletionModal  |-> FALSE,
    completingProject    |-> None,
    completingSubProject |-> None,
    completionFormData   |-> defaultCompletionForm,
    \* the object defaultCompletionForm.testimonials[0] of the module (line
    \* 1038), and the place in completionFormData.testimonials that holds this
    \* very object (0: none does); useState(defaultCompletionForm) of line 1061
    \* makes the form state the module's object itself
    defaultTestimonial   |-> EmptyTestimonial,
    sharedAt             |-> 1 ]

PrNoModal ==
  /\ ~pr.showModal
  /\ ~pr.showSubModal
  /\ ~(pr.showCompletionModal /\ pr.completingProject # None)
  /\ ~(pr.showDeleteModal /\ pr.deletingProject # None)
  /\ ~(pr.showDeleteSubModal /\ pr.deletingSubProject # None)

\* lines 1071-1075: the snapshot callback
ProjectsOnSnapshot ==
  /\ route = "projects"
  /\ listener = "listening"
  /\ pending # <<>>
  /\ pr' = [ pr EXCEPT !.projects = Head(pending) ]
  /\ loading' = FALSE
  /\ last' = Some(Head(pending))
  /\ pending' = Tail(pending)
  /\ event' = NoStep
  /\ UNCHANGED << store, nextId, writes, inflight, route, visit, listener, subscribes, saving, deleting >>
  /\ UNCHANGED << gc, pa, od, publicVars >>

\* line 1076: the error callback
ProjectsOnError ==
  /\ route = "projects"
  /\ listener = "listening"
  /\ loading' = FALSE
  /\ listener' = "errored"
  /\ pending' = <<>>
  /\ event' = NoStep
  /\ UNCHANGED << store, nextId, writes, inflight, route, visit, last, subscribes, saving, deleting >>
  /\ UNCHANGED << pageVars, publicVars >>

\* lines 1156-1172
ProjectFormOf(project) ==
  [ title        |-> StrOr(project, "title", ""),
    subtitle     |-> StrOr(project, "subtitle", ""),
    tagline      |-> StrOr(project, "tagline", ""),
    description  |-> StrOr(project, "description", ""),
    callToAction |-> StrOr(project, "callToAction", ""),
    category     |-> StrOr(project, "category", "water"),
    goal         |-> NumOr(project, "goal", 0),
    raised       |-> NumOr(project, "raised", 0),
    supporters   |-> NumOr(project, "supporters", 0),
    image        |-> StrOr(project, "image", ""),
    tag          |-> StrOr(project, "tag", ""),
    isActive     |-> FlagOr(project, "isActive", TRUE),
    isLive       |-> FlagOr(project, "isLive", FALSE),
    isCompleted  |-> FlagOr(project, "isCompleted", FALSE),
    isParent     |-> FlagOr(project, "isParent", FALSE) ]

\* lines 1153-1178
openProjectModal ==
  /\ Interactive("projects")
  /\ visit = "formData"
  /\ PrNoModal
  /\ \E target \in { None } \cup { Some(p) : p \in Range(pr.projects) } :
       pr' = [ pr EXCEPT
               !.editingProject = target,
               !.formData = IF target # None THEN ProjectFormOf(target[1]) ELSE defaultFormData,
               !.showModal = TRUE ]
  /\ event' = NoStep
  /\ UNCHANGED << clickOthers, gc, pa, od, publicVars >>

\* lines 1629-1713: the inputs of the project form
setFormData ==
  /\ Interactive("projects")
  /\ pr.showModal
  /\ ~saving
  /\ \E f \in ProjectInputs :
       /\ f # pr.formData
       /\ pr' = [ pr EXCEPT !.formData = f ]
  /\ event' = NoStep
  /\ UNCHANGED << clickOthers, gc, pa, od, publicVars >>

\* lines 1622 and 1724
closeProjectModal ==
  /\ Interactive("projects")
  /\ pr.showModal
  /\ ~saving
  /\ pr' = [ pr EXCEPT !.showModal = FALSE ]
  /\ event' = NoStep
  /\ UNCHANGED << clickOthers, gc, pa, od, publicVars >>

ProjectFormValidMutant(form) == form.title # "" /\ form.description # ""

\* line 1182
ProjectFormValid(form) == form.title # "" /\ form.description # "" /\ ~(form.goal <= 0)

\* lines 1188-1201: the write handleProjectSubmit issues
ProjectWrite(editing, form, newId) ==
  IF editing # None
  THEN WriteCall("handleProjectSubmit", "updateDoc", "projects", editing[1].id,
                 Spread(form, [ updatedAt |-> Ts ]))
  ELSE WriteCall("handleProjectSubmit", "addDoc", "projects", newId,
                 Spread(form, [ subProjects |-> <<>>, isCompleted |-> FALSE,
                                createdAt |-> Ts, updatedAt |-> Ts ]))

\* lines 1180-1201, up to the awaited write
handleProjectSubmit ==
  /\ Interactive("projects")
  /\ pr.showModal
  /\ ~saving
  /\ IF ~ProjectFormValid(pr.formData)
     THEN /\ event' = Step("handleProjectSubmit", "invalid", TRUE)
          /\ UNCHANGED << inflight, writes, nextId, saving >>
     ELSE /\ writes < MaxWrites
          /\ inflight' = Some(ProjectWrite(pr.editingProject, pr.formData, << "new", nextId >>))
          /\ writes' = writes + 1
          /\ nextId' = IF pr.editingProject = None THEN nextId + 1 ELSE nextId
          /\ saving' = TRUE
          /\ event' = Step("handleProjectSubmit", "issued", FALSE)
  /\ UNCHANGED << store, route, visit, listener, pending, last, subscribes, loading, deleting >>
  /\ UNCHANGED << pageVars, publicVars >>

\* lines 1449 and 1598
openDeleteProject ==
  /\ Interactive("projects")
  /\ visit = "delete"
  /\ PrNoModal
  /\ \E p \in Range(pr.projects) :
       pr' = [ pr EXCEPT !.deletingProject = Some(p), !.showDeleteModal = TRUE ]
  /\ event' = NoStep
  /\ UNCHANGED << clickOthers, gc, pa, od, publicVars >>

\* line 1952
cancelDeleteProject ==
  /\ Interactive("projects")
  /\ pr.showDeleteModal /\ pr.deletingProject # None
  /\ ~deleting
  /\ pr' = [ pr EXCEPT !.showDeleteModal = FALSE, !.deletingProject = None ]
  /\ event' = NoStep
  /\ UNCHANGED << clickOthers, gc, pa, od, publicVars >>

\* lines 1211-1215, up to the awaited write
handleDeleteProject ==
  /\ Interactive("projects")
  /\ pr.showDeleteModal /\ pr.deletingProject # None
  /\ ~deleting
  /\ writes < MaxWrites
  /\ inflight' = Some(WriteCall("handleDeleteProject", "deleteDoc", "projects",
                                pr.deletingProject[1].id, NoData))
  /\ writes' = writes + 1
  /\ deleting' = TRUE
  /\ event' = Step("handleDeleteProject", "issued", FALSE)
  /\ UNCHANGED << store, nextId, route, visit, listener, pending, last, subscribes, loading, saving >>
  /\ UNCHANGED << pageVars, publicVars >>

\* lines 1230-1236
SubFormOf(sub) ==
  [ title         |-> StrOr(sub, "title", ""),
    description   |-> StrOr(sub, "description", ""),
    communityName |-> StrOr(sub, "communityName", ""),
    goal          |-> NumOr(sub, "goal", 0),
    raised        |-> NumOr(sub, "raised", 0) ]

\* lines 1226-1242; the buttons of lines 1440 and 1551 belong to an umbrella project
openSubModal ==
  /\ Interactive("projects")
  /\ visit = "subFormData"
  /\ PrNoModal
  /\ \E parent \in Range(pr.projects) :
     \E target \in { None } \cup { Some(sub) : sub \in Range(SeqOr(parent, "subProjects")) } :
       /\ FlagOr(parent, "isParent", FALSE)
       /\ ~FlagOr(parent, "isCompleted", FALSE)
       /\ pr' = [ pr EXCEPT
                  !.subModalParent = Some(parent),
                  !.editingSubProject = target,
                  !.subFormData = IF target # None THEN SubFormOf(target[1])
                                  ELSE defaultSubProjectForm,
                  !.showSubModal = TRUE ]
  /\ event' = NoStep
  /\ UNCHANGED << clickOthers, gc, pa, od, publicVars >>

\* lines 1753-1781: the inputs of the sub-project form
setSubFormData ==
  /\ Interactive("projects")
  /\ pr.showSubModal
  /\ ~saving
  /\ \E f \in SubProjectInputs :
       /\ f # pr.subFormData
       /\ pr' = [ pr EXCEPT !.subFormData = f ]
  /\ event' = NoStep
  /\ UNCHANGED << clickOthers, gc, pa, od, publicVars >>

\* lines 1746 and 1786
closeSubModal ==
  /\ Interactive("projects")
  /\ pr.showSubModal
  /\ ~saving
  /\ pr' = [ pr EXCEPT !.showSubModal = FALSE ]
  /\ event' = NoStep
  /\ UNCHANGED << clickOthers, gc, pa, od, publicVars >>

SubProjectFormValidMutant(parent, form) == parent # None /\ form.title # ""

\* line 1246
SubProjectFormValid(parent, form) == parent # None /\ form.title # "" /\ ~(form.goal <= 0)

\* the edit that builds the entry the way the add does
UpdatedSubsMutant(parent, editing, form, newId) ==
  LET currentSubs == SeqOr(parent, "subProjects")
  IN  IF editing # None
      THEN [ i \in 1..Len(currentSubs) |->
               IF currentSubs[i].id = editing[1].id
               THEN Spread(Spread([ id |-> editing[1].id ], form),
                           [ isCompleted |-> FALSE, createdAt |-> "new Date().toISOString()" ])
               ELSE currentSubs[i] ]
      ELSE Append(currentSubs,
                  Spread(Spread([ id |-> newId ], form),
                         [ isCompleted |-> FALSE, createdAt |-> "new Date().toISOString()" ]))

\* lines 1252-1267: the replacement subProjects array
UpdatedSubs(parent, editing, form, newId) ==
  LET currentSubs == SeqOr(parent, "subProjects")
  IN  IF editing # None
      THEN [ i \in 1..Len(currentSubs) |->
               IF currentSubs[i].id = editing[1].id
               THEN Spread(currentSubs[i], form)
               ELSE currentSubs[i] ]
      ELSE Append(currentSubs,
                  Spread(Spread([ id |-> newId ], form),
                         [ isCompleted |-> FALSE, createdAt |-> "new Date().toISOString()" ]))

\* lines 1269-1272
SubProjectWrite(parent, editing, form, newId) ==
  WriteCall("handleSubProjectSubmit", "updateDoc", "projects", parent.id,
            [ subProjects |-> UpdatedSubs(parent, editing, form, newId), updatedAt |-> Ts ])

\* lines 1244-1272, up to the awaited write
handleSubProjectSubmit ==
  /\ Interactive("projects")
  /\ pr.showSubModal
  /\ ~saving
  /\ IF ~SubProjectFormValid(pr.subModalParent, pr.subFormData)
     THEN /\ event' = Step("handleSubProjectSubmit", "invalid", TRUE)
          /\ UNCHANGED << inflight, writes, nextId, saving >>
     ELSE /\ writes < MaxWrites
          /\ inflight' = Some(SubProjectWrite(pr.subModalParent[1], pr.editingSubProject,
                                              pr.subFormData, << "new", nextId >>))
          /\ writes' = writes + 1
          /\ nextId' = IF pr.editingSubProject = None THEN nextId + 1 ELSE nextId
          /\ saving' = TRUE
          /\ event' = Step("handleSubProjectSubmit", "issued", FALSE)
  /\ UNCHANGED << store, route, visit, listener, pending, last, subscribes, loading, deleting >>
  /\ UNCHANGED << pageVars, publicVars >>

\* line 1554
openDeleteSubProject ==
  /\ Interactive("projects")
  /\ visit = "delete"
  /\ PrNoModal
  /\ \E parent \in Range(pr.projects) : \E sub \in Range(SeqOr(parent, "subProjects")) :
       /\ FlagOr(parent, "isParent", FALSE)
       /\ ~FlagOr(parent, "isCompleted", FALSE)
       /\ pr' = [ pr EXCEPT !.deletingSubProject = Some([ sub |-> sub, parent |-> parent ]),
                            !.showDeleteSubModal = TRUE ]
  /\ event' = NoStep
  /\ UNCHANGED << clickOthers, gc, pa, od, publicVars >>

\* line 1977
cancelDeleteSubProject ==
  /\ Interactive("projects")
  /\ pr.showDeleteSubModal /\ pr.deletingSubProject # None
  /\ ~deleting
  /\ pr' = [ pr EXCEPT !.showDeleteSubModal = FALSE, !.deletingSubProject = None ]
  /\ event' = NoStep
  /\ UNCHANGED << clickOthers, gc, pa, od, publicVars >>

\* lines 1288-1293
DeleteSubProjectWrite(target) ==
  WriteCall("handleDeleteSubProject", "updateDoc", "projects", target.parent.id,
            [ subProjects |-> SelectSeq(SeqOr(target.parent, "subProjects"),
                                        LAMBDA s : s.id # target.sub.id),
              updatedAt |-> Ts ])

\* lines 1284-1293, up to the awaited write
handleDeleteSubProject ==
  /\ Interactive("projects")
  /\ pr.showDeleteSubModal /\ pr.deletingSubProject # None
  /\ ~deleting
  /\ writes < MaxWrites
  /\ inflight' = Some(DeleteSubProjectWrite(pr.deletingSubProject[1]))
  /\ writes' = writes + 1
  /\ deleting' = TRUE
  /\ event' = Step("handleDeleteSubProject", "issued", FALSE)
  /\ UNCHANGED << store, nextId, route, visit, listener, pending, last, subscribes, loading, saving >>
  /\ UNCHANGED << pageVars, publicVars >>

\* what an administrator may type into the completion form
CompletionInputs ==
  { [ defaultCompletionForm EXCEPT !.completionStory = << "o", "k" >> ],
    [ defaultCompletionForm EXCEPT
        !.completedDate = << 2025, 12, 24 >>,
        !.completionStory = << "f", "i", "n" >>,
        !.afterImages = << << " " >>, << "h", "1" >> >>,
        !.testimonials = << [ name |-> << "A", "n", "n" >>, text |-> << "h", "i" >>,
                              role |-> <<>> ],
                            EmptyTestimonial >> ] }

\* x || dflt on a field of text or of list type
FilledOr(rec, f, dflt) == IF f \in DOMAIN rec /\ rec[f] # <<>> THEN rec[f] ELSE dflt

\* the value of the module's defaultCompletionForm (lines 1032-1040) now
ModuleCompletionForm ==
  [ defaultCompletionForm EXCEPT !.testimonials = << pr.defaultTestimonial >> ]

CopyTestimonialsMutant(ts) ==
  [ i \in 1..Len(ts) |-> [ name |-> ts[i].name, text |-> ts[i].text ] ]

\* lines 1138-1140: data.testimonials.map(t => ({ name, text, role: t.role || '' }))
CopyTestimonials(ts) ==
  [ i \in 1..Len(ts) |->
      [ name |-> ts[i].name, text |-> ts[i].text, role |-> FilledOr(ts[i], "role", <<>>) ] ]

\* lines 1130-1150
prefillCompletionForm(data) ==
  IF data # None
  THEN [ completedDate   |-> FilledOr(data[1], "completedDate", Today),
         completionStory |-> FilledOr(data[1], "completionStory", <<>>),
         beforeImages    |-> FilledOr(data[1], "beforeImages", << <<>> >>),
         afterImages     |-> FilledOr(data[1], "afterImages", << <<>> >>),
         progressImages  |-> FilledOr(data[1], "progressImages", << <<>> >>),
         testimonials    |-> IF SeqOr(data[1], "testimonials") # <<>>
                             THEN CopyTestimonials(data[1].testimonials)
                             ELSE << EmptyTestimonial >>,
         impactStats     |->
           LET stats == IF "impactStats" \in DOMAIN data[1] THEN data[1].impactStats
                        ELSE << >>
           IN  [ peopleHelped     |-> NumOr(stats, "peopleHelped", 0),
                 itemsDistributed |-> NumOr(stats, "itemsDistributed", 0),
                 customMetric     |-> FilledOr(stats, "customMetric", <<>>) ] ]
  ELSE ModuleCompletionForm

\* line 1148 makes the form state the module's object; line 1132 a new one
SharedAfterPrefill(data) == IF data # None THEN 0 ELSE 1

\* project.completionData, which an uncompleted record does not have
CompletionDataOf(rec) ==
  IF "completionData" \in DOMAIN rec THEN Some(rec.completionData) ELSE None

\* lines 1304-1309; the button is on the active projects that are no parent
\* (line 1432) and on the completed projects (line 1594)
openCompletionModal ==
  /\ Interactive("projects")
  /\ visit \in { "completionFormData", "testimonials" }
  /\ PrNoModal
  /\ \E project \in Range(pr.projects) :
       /\ FlagOr(project, "isCompleted", FALSE) \/ ~FlagOr(project, "isParent", FALSE)
       /\ pr' = [ pr EXCEPT
                  !.completingProject = Some(project),
                  !.completingSubProject = None,
                  !.completionFormData = prefillCompletionForm(CompletionDataOf(project)),
                  !.sharedAt = SharedAfterPrefill(CompletionDataOf(project)),
                  !.showCompletionModal = TRUE ]
  /\ event' = NoStep
  /\ UNCHANGED << clickOthers, gc, pa, od, publicVars >>

\* lines 1311-1316; the button is on every sub-project of an active parent
\* (line 1542)
openSubCompletionModal ==
  /\ Interactive("projects")
  /\ visit \in { "completionFormData", "testimonials" }
  /\ PrNoModal
  /\ \E parent \in Range(pr.projects) : \E sub \in Range(SeqOr(parent, "subProjects")) :
       /\ FlagOr(parent, "isParent", FALSE)
       /\ ~FlagOr(parent, "isCompleted", FALSE)
       /\ pr' = [ pr EXCEPT
                  !.completingProject = Some(parent),
                  !.completingSubProject = Some(sub),
                  !.completionFormData = prefillCompletionForm(CompletionDataOf(sub)),
                  !.sharedAt = SharedAfterPrefill(CompletionDataOf(sub)),
                  !.showCompletionModal = TRUE ]
  /\ event' = NoStep
  /\ UNCHANGED << clickOthers, gc, pa, od, publicVars >>

\* lines 1830-1893 with the image handlers of lines 1092-1104: the inputs
\* of the completion form other than the testimonials; every one of them
\* builds a new form object around the testimonials it has
setCompletionFormData ==
  /\ Interactive("projects")
  /\ visit = "completionFormData"
  /\ pr.showCompletionModal /\ pr.completingProject # None
  /\ ~saving
  /\ \E f \in CompletionInputs :
       LET typed == [ f EXCEPT !.testimonials = pr.completionFormData.testimonials ]
       IN  /\ typed # pr.completionFormData
           /\ pr' = [ pr EXCEPT !.completionFormData = typed ]
  /\ event' = NoStep
  /\ UNCHANGED << clickOthers, gc, pa, od, publicVars >>

\* what an administrator may type into a field of a testimonial
TestimonialEdits ==
  { [ field |-> "name", value |-> << "A", "n", "n" >> ],
    [ field |-> "text", value |-> << "h", "i" >> ] }

\* lines 1106-1107
addTestimonial ==
  /\ Interactive("projects")
  /\ visit = "testimonials"
  /\ pr.showCompletionModal /\ pr.completingProject # None
  /\ ~saving
  /\ Len(pr.completionFormData.testimonials) < MaxTestimonials
  /\ pr' = [ pr EXCEPT !.completionFormData.testimonials = Append(@, EmptyTestimonial) ]
  /\ event' = NoStep
  /\ UNCHANGED << clickOthers, gc, pa, od, publicVars >>

\* lines 1109-1113: arr is a new array of the same objects, and
\* arr[index][field] = value writes into the object itself; when the object
\* is the one of the module's defaultCompletionForm, the module's form has
\* the typed value from then on
updateTestimonial ==
  /\ Interactive("projects")
  /\ visit = "testimonials"
  /\ pr.showCompletionModal /\ pr.completingProject # None
  /\ ~saving
  /\ \E index \in 1..Len(pr.completionFormData.testimonials), e \in TestimonialEdits :
       /\ pr.completionFormData.testimonials[index][e.field] # e.value
       /\ pr' = [ pr EXCEPT
                  !.completionFormData.testimonials[index][e.field] = e.value,
                  !.defaultTestimonial =
                     IF pr.sharedAt = index THEN [ @ EXCEPT ![e.field] = e.value ] ELSE @ ]
  /\ event' = NoStep
  /\ UNCHANGED << clickOthers, gc, pa, od, publicVars >>

\* lines 1115-1118; the button is there with more than one testimonial
\* (line 1908)
removeTestimonial ==
  /\ Interactive("projects")
  /\ visit = "testimonials"
  /\ pr.showCompletionModal /\ pr.completingProject # None
  /\ ~saving
  /\ Len(pr.completionFormData.testimonials) > 1
  /\ \E index \in 1..Len(pr.completionFormData.testimonials) :
       LET ts == pr.completionFormData.testimonials
       IN  pr' = [ pr EXCEPT
                   !.completionFormData.testimonials =
                      SubSeq(ts, 1, index - 1) \o SubSeq(ts, index + 1, Len(ts)),
                   !.sharedAt = IF @ = index THEN 0 ELSE IF @ > index THEN @ - 1 ELSE @ ]
  /\ event' = NoStep
  /\ UNCHANGED << clickOthers, gc, pa, od, publicVars >>

\* lines 1817 and 1927
closeCompletionModal ==
  /\ Interactive("projects")
  /\ pr.showCompletionModal /\ pr.completingProject # None
  /\ ~saving
  /\ pr' = [ pr EXCEPT !.showCompletionModal = FALSE ]
  /\ event' = NoStep
  /\ UNCHANGED << clickOthers, gc, pa, od, publicVars >>

\* lines 1837 and 1844: the date and the story inputs are required, and the
\* browser submits the form only when both have a value
CompletionRequired(form) == form.completedDate # <<>> /\ form.completionStory # <<>>

\* the write that marks the sub-project and its parent
CompletionWriteMutant(project, sub, form) ==
  LET cleanData == buildCleanCompletionData(form)
      subs == SeqOr(project, "subProjects")
  IN  WriteCall("handleCompletionSubmit", "updateDoc", "projects", project.id,
                [ subProjects |->
                    [ i \in 1..Len(subs) |->
                        IF sub # None /\ subs[i].id = sub[1].id
                        THEN Spread(subs[i], [ isCompleted |-> TRUE,
                                               completionData |-> cleanData ])
                        ELSE subs[i] ],
                  isCompleted |-> TRUE, completionData |-> cleanData,
                  updatedAt |-> Ts ])

\* lines 1323-1340
CompletionWrite(project, sub, form) ==
  LET cleanData == buildCleanCompletionData(form)
      subs == SeqOr(project, "subProjects")
  IN  IF sub # None
      THEN WriteCall("handleCompletionSubmit", "updateDoc", "projects", project.id,
                     [ subProjects |->
                         [ i \in 1..Len(subs) |->
                             IF subs[i].id = sub[1].id
                             THEN Spread(subs[i], [ isCompleted |-> TRUE,
                                                    completionData |-> cleanData ])
                             ELSE subs[i] ],
                       updatedAt |-> Ts ])
      ELSE WriteCall("handleCompletionSubmit", "updateDoc", "projects", project.id,
                     [ isCompleted |-> TRUE, completionData |-> cleanData,
                       updatedAt |-> Ts ])

\* lines 1318-1340, up to the awaited write; the form is rendered only with
\* a completingProject (line 1800), so the return of line 1320 is not taken
handleCompletionSubmit ==
  /\ Interactive("projects")
  /\ pr.showCompletionModal /\ pr.completingProject # None
  /\ ~saving
  /\ CompletionRequired(pr.completionFormData)
  /\ writes < MaxWrites
  /\ inflight' = Some(CompletionWrite(pr.completingProject[1], pr.completingSubProject,
                                      pr.completionFormData))
  /\ writes' = writes + 1
  /\ saving' = TRUE
  /\ event' = Step("handleCompletionSubmit", "issued", FALSE)
  /\ UNCHANGED << store, nextId, route, visit, listener, pending, last, subscribes, loading,
                  deleting >>
  /\ UNCHANGED << pageVars, publicVars >>

\* what the page does after its awaited write resolved (ok) or was rejected
PrContinued(handler, ok) ==
  CASE handler = "handleProjectSubmit" ->
         IF ok THEN [ pr EXCEPT !.showModal = FALSE, !.editingProject = None ] ELSE pr
    [] handler = "handleDeleteProject" ->
         IF ok THEN [ pr EXCEPT !.showDeleteModal = FALSE, !.deletingProject = None ] ELSE pr
    [] handler = "handleSubProjectSubmit" ->
         IF ok THEN [ pr EXCEPT !.showSubModal = FALSE, !.subModalParent = None,
                                !.editingSubProject = None ]
         ELSE pr
    [] handler = "handleDeleteSubProject" ->
         IF ok THEN [ pr EXCEPT !.showDeleteSubModal = FALSE, !.deletingSubProject = None ]
         ELSE pr
    [] handler = "handleCompletionSubmit" ->
         IF ok THEN [ pr EXCEPT !.showCompletionModal = FALSE, !.completingProject = None,
                                !.completingSubProject = None ]
         ELSE pr

\* ------------------------------------------------------------------------
\* Projects dashboard before the sub-projects:
\* src/app/dashboard/projects/page.tsx
\* ------------------------------------------------------------------------

\* lines 68-83: the form of this page has no isParent
OldDefaultFormData ==
  [ title |-> "", subtitle |-> "", tagline |-> "", description |-> "",
    callToAction |-> "", category |-> "water", goal |-> 0, raised |-> 0,
    supporters |-> 0, image |-> "", tag |-> "",
    isActive |-> TRUE, isLive |-> FALSE, isCompleted |-> FALSE ]

\* what an administrator may type into the project form of this page
OldProjectInputs ==
  LET full == [ OldDefaultFormData EXCEPT !.title = "Health Post",
                                          !.description = "staff a post", !.goal = 600 ]
  IN  { full,
        [ full EXCEPT !.isCompleted = TRUE ],
        [ full EXCEPT !.title = "" ],
        [ full EXCEPT !.goal = 0 ] }

\* line 256: title.toLowerCase().replace(/\s+/g, '-'), on the titles of the model
toSlug(title) ==
  CASE title = "Health Post" -> "health-post"
    [] title = "Wells"       -> "wells"
    [] title = "Library"     -> "library"
    [] title = "Clinic"      -> "clinic"

\* lines 54-98: the state of the page as constructed
OdConstructed ==
  [ projects            |-> <<>>,
    showModal           |-> FALSE,
    showCompletionModal |-> FALSE,
    showDeleteModal     |-> FALSE,
    editingProject      |-> None,
    completingProject   |-> None,
    deletingProject     |-> None,
    formData            |-> OldDefaultFormData,
    completionFormData  |-> defaultCompletionForm ]

OdNoModal ==
  /\ ~od.showModal
  /\ ~(od.showCompletionModal /\ od.completingProject # None)
  /\ ~(od.showDeleteModal /\ od.deletingProject # None)

\* lines 104-111: the snapshot callback
OldProjectsOnSnapshot ==
  /\ route = "old-projects"
  /\ listener = "listening"
  /\ pending # <<>>
  /\ od' = [ od EXCEPT !.projects = Head(pending) ]
  /\ loading' = FALSE
  /\ last' = Some(Head(pending))
  /\ pending' = Tail(pending)
  /\ event' = NoStep
  /\ UNCHANGED << store, nextId, writes, inflight, route, visit, listener, subscribes, saving, deleting >>
  /\ UNCHANGED << gc, pr, pa, publicVars >>

\* lines 112-115: the error callback
OldProjectsOnError ==
  /\ route = "old-projects"
  /\ listener = "listening"
  /\ loading' = FALSE
  /\ listener' = "errored"
  /\ pending' = <<>>
  /\ event' = NoStep
  /\ UNCHANGED << store, nextId, writes, inflight, route, visit, last, subscribes, saving, deleting >>
  /\ UNCHANGED << pageVars, publicVars >>

\* lines 124-139
OldProjectFormOf(project) ==
  [ title        |-> StrOr(project, "title", ""),
    subtitle     |-> StrOr(project, "subtitle", ""),
    tagline      |-> StrOr(project, "tagline", ""),
    description  |-> StrOr(project, "description", ""),
    callToAction |-> StrOr(project, "callToAction", ""),
    category     |-> StrOr(project, "category", "water"),
    goal         |-> NumOr(project, "goal", 0),
    raised       |-> NumOr(project, "raised", 0),
    supporters   |-> NumOr(project, "supporters", 0),
    image        |-> StrOr(project, "image", ""),
    tag          |-> StrOr(project, "tag", ""),
    isActive     |-> FlagOr(project, "isActive", TRUE),
    isLive       |-> FlagOr(project, "isLive", FALSE),
    isCompleted  |-> FlagOr(project, "isCompleted", FALSE) ]

\* lines 121-160
handleOpenModal ==
  /\ Interactive("old-projects")
  /\ visit = "formData"
  /\ OdNoModal
  /\ \E target \in { None } \cup { Some(p) : p \in Range(od.projects) } :
       od' = [ od EXCEPT
               !.editingProject = target,
               !.formData = IF target # None THEN OldProjectFormOf(target[1])
                            ELSE OldDefaultFormData,
               !.showModal = TRUE ]
  /\ event' = NoStep
  /\ UNCHANGED << clickOthers, gc, pr, pa, publicVars >>

\* lines 631-818: the inputs of the project form
OldSetFormData ==
  /\ Interactive("old-projects")
  /\ od.showModal
  /\ ~saving
  /\ \E f \in OldProjectInputs :
       /\ f # od.formData
       /\ od' = [ od EXCEPT !.formData = f ]
  /\ event' = NoStep
  /\ UNCHANGED << clickOthers, gc, pr, pa, publicVars >>

\* lines 205-208
handleCloseModal ==
  /\ Interactive("old-projects")
  /\ od.showModal
  /\ ~saving
  /\ od' = [ od EXCEPT !.showModal = FALSE, !.editingProject = None ]
  /\ event' = NoStep
  /\ UNCHANGED << clickOthers, gc, pr, pa, publicVars >>

\* line 228
OldProjectFormValid(form) == form.title # "" /\ form.description # "" /\ ~(form.goal <= 0)

\* lines 236-276: the write handleSubmit issues; the data of a new document
\* has a field id, the slug of the title
OldProjectWrite(editing, form, newId) ==
  IF editing # None
  THEN WriteCall("old/handleSubmit", "updateDoc", "projects", editing[1].id,
                 Spread(form, [ updatedAt |-> Ts ]))
  ELSE WriteCall("old/handleSubmit", "addDoc", "projects", newId,
                 Spread(form, [ id |-> toSlug(form.title), createdAt |-> Ts,
                                updatedAt |-> Ts ]))

\* lines 225-276, up to the awaited write
OldHandleSubmit ==
  /\ Interactive("old-projects")
  /\ od.showModal
  /\ ~saving
  /\ IF ~OldProjectFormValid(od.formData)
     THEN /\ event' = Step("old/handleSubmit", "invalid", TRUE)
          /\ UNCHANGED << inflight, writes, nextId, saving >>
     ELSE /\ writes < MaxWrites
          /\ inflight' = Some(OldProjectWrite(od.editingProject, od.formData,
                                              << "new", nextId >>))
          /\ writes' = writes + 1
          /\ nextId' = IF od.editingProject = None THEN nextId + 1 ELSE nextId
          /\ saving' = TRUE
          /\ event' = Step("old/handleSubmit", "issued", FALSE)
  /\ UNCHANGED << store, route, visit, listener, pending, last, subscribes, loading, deleting >>
  /\ UNCHANGED << pageVars, publicVars >>

\* x || dflt on a list: an empty list is kept
ListOr(rec, f, dflt) == IF f \in DOMAIN rec THEN rec[f] ELSE dflt

\* lines 166-184
OldPrefill(data) ==
  [ completedDate   |-> FilledOr(data, "completedDate", Today),
    completionStory |-> FilledOr(data, "completionStory", <<>>),
    beforeImages    |-> ListOr(data, "beforeImages", << <<>> >>),
    afterImages     |-> ListOr(data, "afterImages", << <<>> >>),
    progressImages  |-> ListOr(data, "progressImages", << <<>> >>),
    testimonials    |-> IF SeqOr(data, "testimonials") # <<>>
                        THEN CopyTestimonials(data.testimonials)
                        ELSE << EmptyTestimonial >>,
    impactStats     |->
      LET stats == IF "impactStats" \in DOMAIN data THEN data.impactStats ELSE << >>
      IN  [ peopleHelped     |-> NumOr(stats, "peopleHelped", 0),
            itemsDistributed |-> NumOr(stats, "itemsDistributed", 0),
            customMetric     |-> FilledOr(stats, "customMetric", <<>>) ] ]

\* line 443: project.raised && project.raised >= project.goal
FullyRaised(project) ==
  /\ NumOr(project, "raised", 0) # 0
  /\ "goal" \in DOMAIN project
  /\ project.raised >= project.goal

\* lines 162-203; the button is on the active projects that raised their
\* goal (line 443) and on the completed projects (line 542)
handleOpenCompletionModal ==
  /\ Interactive("old-projects")
  /\ visit = "completionFormData"
  /\ OdNoModal
  /\ \E project \in Range(od.projects) :
       /\ FlagOr(project, "isCompleted", FALSE) \/ FullyRaised(project)
       /\ od' = [ od EXCEPT
                  !.completingProject = Some(project),
                  !.completionFormData =
                     IF "completionData" \in DOMAIN project
                     THEN OldPrefill(project.completionData)
                     ELSE defaultCompletionForm,
                  !.showCompletionModal = TRUE ]
  /\ event' = NoStep
  /\ UNCHANGED << clickOthers, gc, pr, pa, publicVars >>

\* lines 895-1130: the inputs of the completion form
OldSetCompletionFormData ==
  /\ Interactive("old-projects")
  /\ od.showCompletionModal /\ od.completingProject # None
  /\ ~saving
  /\ \E f \in CompletionInputs :
       /\ f # od.completionFormData
       /\ od' = [ od EXCEPT !.completionFormData = f ]
  /\ event' = NoStep
  /\ UNCHANGED << clickOthers, gc, pr, pa, publicVars >>

\* lines 210-213
handleCloseCompletionModal ==
  /\ Interactive("old-projects")
  /\ od.showCompletionModal /\ od.completingProject # None
  /\ ~saving
  /\ od' = [ od EXCEPT !.showCompletionModal = FALSE, !.completingProject = None ]
  /\ event' = NoStep
  /\ UNCHANGED << clickOthers, gc, pr, pa, publicVars >>

\* lines 898 and 914: the date and the story inputs are required
OldCompletionRequired(form) == form.completedDate # <<>> /\ form.completionStory # <<>>

\* lines 295-312
OldCompletionWrite(project, form) ==
  WriteCall("old/handleCompletionSubmit", "updateDoc", "projects", project.id,
            [ isCompleted |-> TRUE, completionData |-> cleanCompletionData(form),
              updatedAt |-> Ts ])

\* lines 287-312, up to the awaited write; the form is rendered only with a
\* completingProject (line 858), so the return of line 290 is not taken
OldHandleCompletionSubmit ==
  /\ Interactive("old-projects")
  /\ od.showCompletionModal /\ od.completingProject # None
  /\ ~saving
  /\ OldCompletionRequired(od.completionFormData)
  /\ writes < MaxWrites
  /\ inflight' = Some(OldCompletionWrite(od.completingProject[1], od.completionFormData))
  /\ writes' = writes + 1
  /\ saving' = TRUE
  /\ event' = Step("old/handleCompletionSubmit", "issued", FALSE)
  /\ UNCHANGED << store, nextId, route, visit, listener, pending, last, subscribes, loading,
                  deleting >>
  /\ UNCHANGED << pageVars, publicVars >>

\* lines 215-218
handleOpenDeleteModal ==
  /\ Interactive("old-projects")
  /\ visit = "delete"
  /\ OdNoModal
  /\ \E project \in Range(od.projects) :
       od' = [ od EXCEPT !.deletingProject = Some(project), !.showDeleteModal = TRUE ]
  /\ event' = NoStep
  /\ UNCHANGED << clickOthers, gc, pr, pa, publicVars >>

\* lines 220-223
handleCloseDeleteModal ==
  /\ Interactive("old-projects")
  /\ od.showDeleteModal /\ od.deletingProject # None
  /\ ~deleting
  /\ od' = [ od EXCEPT !.showDeleteModal = FALSE, !.deletingProject = None ]
  /\ event' = NoStep
  /\ UNCHANGED << clickOthers, gc, pr, pa, publicVars >>

\* lines 324-330, up to the awaited write
OldHandleDelete ==
  /\ Interactive("old-projects")
  /\ od.showDeleteModal /\ od.deletingProject # None
  /\ ~deleting
  /\ writes < MaxWrites
  /\ inflight' = Some(WriteCall("old/handleDelete", "deleteDoc", "projects",
                                od.deletingProject[1].id, NoData))
  /\ writes' = writes + 1
  /\ deleting' = TRUE
  /\ event' = Step("old/handleDelete", "issued", FALSE)
  /\ UNCHANGED << store, nextId, route, visit, listener, pending, last, subscribes, loading, saving >>
  /\ UNCHANGED << pageVars, publicVars >>

\* what the page does after its awaited write resolved (ok) or was rejected
OdContinued(handler, ok) ==
  CASE handler = "old/handleSubmit" ->
         IF ok THEN [ od EXCEPT !.showModal = FALSE, !.editingProject = None ] ELSE od
    [] handler = "old/handleCompletionSubmit" ->
         IF ok THEN [ od EXCEPT !.showCompletionModal = FALSE, !.completingProject = None ]
         ELSE od
    [] handler = "old/handleDelete" ->
         IF ok THEN [ od EXCEPT !.showDeleteModal = FALSE, !.deletingProject = None ]
         ELSE od

\* ------------------------------------------------------------------------
\* Partners dashboard: src/app/dashboard/partners/page.tsx
\* ------------------------------------------------------------------------

GoogleOrg ==
  [ id |-> << "pt", 1 >>, name |-> "Google.org", logo |-> "/g.png", website |-> "https://g.org",
    amount |-> 5000, project |-> "Wells", note |-> "Grant 2024", date |-> "2024-05-01",
    createdAt |-> Ts ]

\* a document without the optional fields
LocalShop == [ id |-> << "pt", 2 >>, name |-> "Local shop", logo |-> "" ]

\* lines 31-39
defaultForm ==
  [ name |-> "", logo |-> "", website |-> "", amount |-> 0, project |-> "", note |-> "",
    date |-> TodayIso ]

\* what an administrator may type into the partner form
PartnerInputs ==
  LET full == [ name |-> "TechSoup", logo |-> "/t.png", website |-> "", amount |-> 70,
                project |-> "", note |-> "", date |-> "2026-02-03" ]
  IN  { full, [ full EXCEPT !.name = "" ] }

\* lines 45-55: the state of the page as constructed
PaConstructed ==
  [ partners        |-> <<>>,
    showModal       |-> FALSE,
    editingPartner  |-> None,
    formData        |-> defaultForm,
    showDeleteModal |-> FALSE,
    deletingPartner |-> None ]

PaNoModal ==
  /\ ~pa.showModal
  /\ ~(pa.showDeleteModal /\ pa.deletingPartner # None)

\* the snapshot callback without the setPartners of line 60
AdminPartnersOnSnapshotMutant ==
  /\ route = "partners"
  /\ listener = "listening"
  /\ pending # <<>>
  /\ loading' = FALSE
  /\ last' = Some(Head(pending))
  /\ pending' = Tail(pending)
  /\ event' = NoStep
  /\ UNCHANGED << store, nextId, writes, inflight, route, visit, listener, subscribes, saving, deleting >>
  /\ UNCHANGED << pageVars, publicVars >>

\* lines 59-62: the snapshot callback
AdminPartnersOnSnapshot ==
  /\ route = "partners"
  /\ listener = "listening"
  /\ pending # <<>>
  /\ pa' = [ pa EXCEPT !.partners = Head(pending) ]
  /\ loading' = FALSE
  /\ last' = Some(Head(pending))
  /\ pending' = Tail(pending)
  /\ event' = NoStep
  /\ UNCHANGED << store, nextId, writes, inflight, route, visit, listener, subscribes, saving, deleting >>
  /\ UNCHANGED << gc, pr, od, publicVars >>

\* line 62: the error callback
AdminPartnersOnError ==
  /\ route = "partners"
  /\ listener = "listening"
  /\ loading' = FALSE
  /\ listener' = "errored"
  /\ pending' = <<>>
  /\ event' = NoStep
  /\ UNCHANGED << store, nextId, writes, inflight, route, visit, last, subscribes, saving, deleting >>
  /\ UNCHANGED << pageVars, publicVars >>

\* lines 69-77
PartnerFormOf(partner) ==
  [ name    |-> StrOr(partner, "name", ""),
    logo    |-> StrOr(partner, "logo", ""),
    website |-> StrOr(partner, "website", ""),
    amount  |-> NumOr(partner, "amount", 0),
    project |-> StrOr(partner, "project", ""),
    note    |-> StrOr(partner, "note", ""),
    date    |-> StrOr(partner, "date", TodayIso) ]

\* lines 66-83
openModal ==
  /\ Interactive("partners")
  /\ visit = "formData"
  /\ PaNoModal
  /\ \E target \in { None } \cup { Some(p) : p \in Range(pa.partners) } :
       pa' = [ pa EXCEPT
               !.editingPartner = target,
               !.formData = IF target # None THEN PartnerFormOf(target[1]) ELSE defaultForm,
               !.showModal = TRUE ]
  /\ event' = NoStep
  /\ UNCHANGED << clickOthers, gc, pr, od, publicVars >>

\* lines 257-310: the inputs of the partner form
setPartnerFormData ==
  /\ Interactive("partners")
  /\ pa.showModal
  /\ ~saving
  /\ \E f \in PartnerInputs :
       /\ f # pa.formData
       /\ pa' = [ pa EXCEPT !.formData = f ]
  /\ event' = NoStep
  /\ UNCHANGED << clickOthers, gc, pr, od, publicVars >>

\* lines 247 and 317
closeModal ==
  /\ Interactive("partners")
  /\ pa.showModal
  /\ ~saving
  /\ pa' = [ pa EXCEPT !.showModal = FALSE ]
  /\ event' = NoStep
  /\ UNCHANGED << clickOthers, gc, pr, od, publicVars >>

\* line 87
PartnerFormValid(form) == form.name # ""

\* lines 90-103: the write handleSubmit issues
PartnerWrite(editing, form, newId) ==
  IF editing # None
  THEN WriteCall("handleSubmit", "updateDoc", "partners", editing[1].id,
                 Spread(form, [ amount |-> form.amount, updatedAt |-> Ts ]))
  ELSE WriteCall("handleSubmit", "addDoc", "partners", newId,
                 Spread(form, [ amount |-> form.amount, createdAt |-> Ts, updatedAt |-> Ts ]))

handleSubmitMutant ==
  /\ Interactive("partners")
  /\ pa.showModal
  /\ ~saving
  /\ IF ~PartnerFormValid(pa.formData)
     THEN /\ event' = Step("handleSubmit", "invalid", FALSE)
          /\ UNCHANGED << inflight, writes, nextId, saving >>
     ELSE /\ writes < MaxWrites
          /\ inflight' = Some(PartnerWrite(pa.editingPartner, pa.formData, << "new", nextId >>))
          /\ writes' = writes + 1
          /\ nextId' = IF pa.editingPartner = None THEN nextId + 1 ELSE nextId
          /\ saving' = TRUE
          /\ event' = Step("handleSubmit", "issued", FALSE)
  /\ UNCHANGED << store, route, visit, listener, pending, last, subscribes, loading, deleting >>
  /\ UNCHANGED << pageVars, publicVars >>

\* lines 85-103, up to the awaited write
handleSubmit ==
  /\ Interactive("partners")
  /\ pa.showModal
  /\ ~saving
  /\ IF ~PartnerFormValid(pa.formData)
     THEN /\ event' = Step("handleSubmit", "invalid", TRUE)
          /\ UNCHANGED << inflight, writes, nextId, saving >>
     ELSE /\ writes < MaxWrites
          /\ inflight' = Some(PartnerWrite(pa.editingPartner, pa.formData, << "new", nextId >>))
          /\ writes' = writes + 1
          /\ nextId' = IF pa.editingPartner = None THEN nextId + 1 ELSE nextId
          /\ saving' = TRUE
          /\ event' = Step("handleSubmit", "issued", FALSE)
  /\ UNCHANGED << store, route, visit, listener, pending, last, subscribes, loading, deleting >>
  /\ UNCHANGED << pageVars, publicVars >>

\* line 229
openDeletePartner ==
  /\ Interactive("partners")
  /\ visit = "delete"
  /\ PaNoModal
  /\ \E p \in Range(pa.partners) :
       pa' = [ pa EXCEPT !.deletingPartner = Some(p), !.showDeleteModal = TRUE ]
  /\ event' = NoStep
  /\ UNCHANGED << clickOthers, gc, pr, od, publicVars >>

\* line 349
cancelDeletePartner ==
  /\ Interactive("partners")
  /\ pa.showDeleteModal /\ pa.deletingPartner # None
  /\ ~deleting
  /\ pa' = [ pa EXCEPT !.showDeleteModal = FALSE, !.deletingPartner = None ]
  /\ event' = NoStep
  /\ UNCHANGED << clickOthers, gc, pr, od, publicVars >>

\* lines 113-117, up to the awaited write
handleDelete ==
  /\ Interactive("partners")
  /\ pa.showDeleteModal /\ pa.deletingPartner # None
  /\ ~deleting
  /\ writes < MaxWrites
  /\ inflight' = Some(WriteCall("handleDelete", "deleteDoc", "partners",
                                pa.deletingPartner[1].id, NoData))
  /\ writes' = writes + 1
  /\ deleting' = TRUE
  /\ event' = Step("handleDelete", "issued", FALSE)
  /\ UNCHANGED << store, nextId, route, visit, listener, pending, last, subscribes, loading, saving >>
  /\ UNCHANGED << pageVars, publicVars >>

PaContinuedMutant(handler, ok) ==
  CASE handler = "handleSubmit" -> [ pa EXCEPT !.showModal = FALSE, !.editingPartner = None ]
    [] handler = "handleDelete" -> [ pa EXCEPT !.showDeleteModal = FALSE, !.deletingPartner = None ]

\* what the page does after its awaited write resolved (ok) or was rejected
PaContinued(handler, ok) ==
  CASE handler = "handleSubmit" ->
         IF ok THEN [ pa EXCEPT !.showModal = FALSE, !.editingPartner = None ] ELSE pa
    [] handler = "handleDelete" ->
         IF ok THEN [ pa EXCEPT !.showDeleteModal = FALSE, !.deletingPartner = None ] ELSE pa

\* ------------------------------------------------------------------------
\* The awaited write comes back, and the page goes away
\* ------------------------------------------------------------------------

CollectionOf(page) ==
  CASE page = "giving-circle" -> "workspaces"
    [] page = "projects"      -> "projects"
    [] page = "partners"      -> "partners"
    [] page = "old-projects"  -> "projects"

\* the records the mounted page shows
ViewList ==
  CASE route = "giving-circle" -> gc.workspaces
    [] route = "projects"      -> pr.projects
    [] route = "partners"      -> pa.partners
    [] route = "old-projects"  -> od.projects

InitialStore ==
  [ workspaces |-> << AcmeWorkspace, BetaWorkspace >>,
    projects   |-> << WellsProject, LibraryProject >>,
    partners   |-> << GoogleOrg, LocalShop >> ]

\* only the completion handlers report their success with an alert
SuccessAlert(handler) == handler \in { "handleCompletionSubmit", "old/handleCompletionSubmit" }

\* the store accepts the write; the listener of the mounted page is sent the
\* new content of its collection; the handler runs on from its await
StoreResolve ==
  /\ inflight # None
  /\ LET w == inflight[1]
     IN  /\ w.op = "updateDoc" => HasDoc(store[w.coll], w.id)
         /\ store' = [ store EXCEPT ![w.coll] = ApplyWrite(@, w) ]
         /\ pending' = IF listener = "listening"
                       THEN Append(pending, ApplyWrite(store[w.coll], w))
                       ELSE pending
         /\ gc' = IF route = "giving-circle" THEN GcContinued(w.handler, TRUE) ELSE gc
         /\ pr' = IF route = "projects" THEN PrContinued(w.handler, TRUE) ELSE pr
         /\ pa' = IF route = "partners" THEN PaContinued(w.handler, TRUE) ELSE pa
         /\ od' = IF route = "old-projects" THEN OdContinued(w.handler, TRUE) ELSE od
         /\ event' = Step(w.handler, "resolved", SuccessAlert(w.handler))
  /\ inflight' = None
  /\ saving' = FALSE
  /\ deleting' = FALSE
  /\ UNCHANGED << nextId, writes, route, visit, listener, last, subscribes, loading >>
  /\ UNCHANGED publicVars

\* the store rejects the write: the catch block alerts, finally resets the flag
StoreReject ==
  /\ inflight # None
  /\ LET w == inflight[1]
     IN  /\ gc' = IF route = "giving-circle" THEN GcContinued(w.handler, FALSE) ELSE gc
         /\ pr' = IF route = "projects" THEN PrContinued(w.handler, FALSE) ELSE pr
         /\ pa' = IF route = "partners" THEN PaContinued(w.handler, FALSE) ELSE pa
         /\ od' = IF route = "old-projects" THEN OdContinued(w.handler, FALSE) ELSE od
         /\ event' = Step(w.handler, "rejected", TRUE)
  /\ inflight' = None
  /\ saving' = FALSE
  /\ deleting' = FALSE
  /\ UNCHANGED << store, nextId, writes, route, visit, listener, pending, last, subscribes, loading >>
  /\ UNCHANGED publicVars

\* the clean-up of the effect: unsub()
Unsubscribe ==
  /\ listener # "unsubscribed"
  /\ listener' = "unsubscribed"
  /\ pending' = <<>>
  /\ event' = NoStep
  /\ UNCHANGED << store, nextId, writes, inflight, route, visit, last, subscribes, loading,
                  saving, deleting >>
  /\ UNCHANGED << pageVars, publicVars >>

\* one visit of the administrator: a page of the dashboard, and what on
\* that page the visit is for: one of its forms, or its delete buttons
Visits ==
  { << "giving-circle", "workspaceForm" >>, << "giving-circle", "expenseForm" >>,
    << "giving-circle", "delete" >>,
    << "projects", "formData" >>, << "projects", "subFormData" >>,
    << "projects", "completionFormData" >>, << "projects", "delete" >>,
    << "partners", "formData" >>, << "partners", "delete" >>,
    << "old-projects", "formData" >>, << "old-projects", "completionFormData" >>,
    << "old-projects", "delete" >> }

\* one administrator opens one page of the dashboard
InitDashboardPage ==
  /\ \E v \in Visits : route = v[1] /\ visit = v[2]
  /\ store = InitialStore
  /\ nextId = 1
  /\ writes = 0
  /\ inflight = None
  /\ event = NoStep
  /\ listener = "listening"
  /\ pending = << InitialStore[CollectionOf(route)] >>
  /\ last = None
  /\ subscribes = 1
  /\ loading = TRUE
  /\ saving = FALSE
  /\ deleting = FALSE
  /\ gc = GcConstructed
  /\ pr = PrConstructed
  /\ pa = PaConstructed
  /\ od = OdConstructed

\* ------------------------------------------------------------------------
\* Two sessions: the same page open in two browsers, both with the modal of
\* the same parent document, taken from the same snapshot
\* ------------------------------------------------------------------------

Sessions == { "A", "B" }

\* the parent documents two administrators may both have open
SharedParents == { AcmeWorkspace, WellsProject }

IsWorkspace(doc) == "expenses" \in DOMAIN doc

\* a session: the parent its modal captured when it was opened, the parent
\* as the list of its view has it now, and as the list had it at the submit
Session(status, parent, call, view, seen) ==
  [ status |-> status, parent |-> parent, call |-> call, view |-> view, seen |-> seen ]

InitTwoSessions ==
  /\ \E parent \in SharedParents :
       sessions = [ s \in Sessions |-> Session("open", parent, None, parent, parent) ]
  /\ applied = <<>>

IdleTwoSessions ==
  /\ sessions = <<>>
  /\ applied = <<>>

\* everything of the dashboard but the store
tsOthers == << nextId, writes, inflight, event, route, visit, listener, pending, last,
              subscribes, loading, saving, deleting, pageVars,
              ppVars, cpVars, pgVars, rlVars, cfVars >>

\* the submit that takes the array of the parent from the list of the view
SessionExpenseSubmitMutant(s) ==
  /\ sessions[s].status = "open"
  /\ IsWorkspace(sessions[s].parent)
  /\ \E target \in { None } \cup { Some(e) : e \in Range(sessions[s].view.expenses) } :
     \E f \in ExpenseInputs :
       /\ ExpenseFormValid(Some(sessions[s].view), f)
       /\ sessions' = [ sessions EXCEPT ![s] =
            Session("awaiting", @.parent,
                    Some(ExpenseWrite(@.view, target, f, << "new", s >>)), @.view, @.view) ]
  /\ UNCHANGED << store, applied, tsOthers >>

\* giving-circle/page.tsx lines 138-153 in session s
SessionExpenseSubmit(s) ==
  /\ sessions[s].status = "open"
  /\ IsWorkspace(sessions[s].parent)
  /\ \E target \in { None } \cup { Some(e) : e \in Range(sessions[s].parent.expenses) } :
     \E f \in ExpenseInputs :
       /\ ExpenseFormValid(Some(sessions[s].parent), f)
       /\ sessions' = [ sessions EXCEPT ![s] =
            Session("awaiting", @.parent,
                    Some(ExpenseWrite(@.parent, target, f, << "new", s >>)), @.view, @.view) ]
  /\ UNCHANGED << store, applied, tsOthers >>

\* giving-circle/page.tsx lines 162-169 in session s
SessionExpenseDelete(s) ==
  /\ sessions[s].status = "open"
  /\ IsWorkspace(sessions[s].parent)
  /\ \E e \in Range(sessions[s].parent.expenses) :
       sessions' = [ sessions EXCEPT ![s] =
         Session("awaiting", @.parent,
                 Some(DeleteExpenseWrite([ expense |-> e, workspace |-> @.parent ])), @.view, @.view) ]
  /\ UNCHANGED << store, applied, tsOthers >>

\* part_002 lines 1244-1272 in session s
SessionSubProjectSubmit(s) ==
  /\ sessions[s].status = "open"
  /\ ~IsWorkspace(sessions[s].parent)
  /\ \E target \in { None } \cup { Some(sub) : sub \in Range(sessions[s].parent.subProjects) } :
     \E f \in SubProjectInputs :
       /\ SubProjectFormValid(Some(sessions[s].parent), f)
       /\ sessions' = [ sessions EXCEPT ![s] =
            Session("awaiting", @.parent,
                    Some(SubProjectWrite(@.parent, target, f, << "new", s >>)), @.view, @.view) ]
  /\ UNCHANGED << store, applied, tsOthers >>

\* part_002 lines 1284-1293 in session s
SessionSubProjectDelete(s) ==
  /\ sessions[s].status = "open"
  /\ ~IsWorkspace(sessions[s].parent)
  /\ \E sub \in Range(sessions[s].parent.subProjects) :
       sessions' = [ sessions EXCEPT ![s] =
         Session("awaiting", @.parent,
                 Some(DeleteSubProjectWrite([ sub |-> sub, parent |-> @.parent ])), @.view, @.view) ]
  /\ UNCHANGED << store, applied, tsOthers >>

\* part_002 lines 1325-1334 in session s, on a sub-project of the parent
SessionSubCompletion(s) ==
  /\ sessions[s].status = "open"
  /\ ~IsWorkspace(sessions[s].parent)
  /\ \E sub \in Range(sessions[s].parent.subProjects) :
     \E f \in CompletionInputs :
       /\ CompletionRequired(f)
       /\ sessions' = [ sessions EXCEPT ![s] =
            Session("awaiting", @.parent,
                    Some(CompletionWrite(@.parent, Some(sub), f)), @.view, @.view) ]
  /\ UNCHANGED << store, applied, tsOthers >>

\* the document of the store a session has its modal on
StoredParent(s) ==
  LET coll == IF IsWorkspace(sessions[s].parent) THEN store.workspaces ELSE store.projects
  IN  coll[CHOOSE i \in 1..Len(coll) : coll[i].id = sessions[s].parent.id]

\* the snapshot callback in session s: the list of the view is replaced, the
\* parent the modal has captured is not
SessionOnSnapshot(s) ==
  /\ sessions[s].view # StoredParent(s)
  /\ sessions' = [ sessions EXCEPT ![s].view = StoredParent(s) ]
  /\ UNCHANGED << store, applied, tsOthers >>

\* the store accepts the write of session s: updateDoc asks only that the
\* document exists
SessionResolve(s) ==
  /\ sessions[s].status = "awaiting"
  /\ LET w == sessions[s].call[1]
     IN  /\ w.op = "updateDoc" => HasDoc(store[w.coll], w.id)
         /\ store' = [ store EXCEPT ![w.coll] = ApplyWrite(@, w) ]
  /\ applied' = Append(applied, s)
  /\ sessions' = [ sessions EXCEPT ![s].status = "resolved" ]
  /\ UNCHANGED tsOthers

\* the store rejects the write of session s for a reason of its own (the
\* network, the rules); the modal stays open and the submit may be repeated
SessionReject(s) ==
  /\ sessions[s].status = "awaiting"
  /\ sessions' = [ sessions EXCEPT ![s] = Session("open", @.parent, None, @.view, @.seen) ]
  /\ UNCHANGED << store, applied, tsOthers >>

\* ------------------------------------------------------------------------
\* Specifications
\* ------------------------------------------------------------------------

\* a page that is not mounted: its state as constructed, no subscription
IdlePartnersPage ==
  /\ firestorePartners = <<>>
  /\ ppLoading = TRUE
  /\ ppListener = "unsubscribed"
  /\ ppPending = <<>>
  /\ ppEmitted = 0
  /\ ppSubscribes = 0
  /\ ppLast = None
  /\ displayPartners = RenderPartnerGrid(FOUNDING_PARTNERS, <<>>)
  /\ contributingPartners = <<>>
  /\ totalContributed = 0

IdleCompletedPage ==
  /\ completedItems = <<>>
  /\ cpLoading = TRUE
  /\ cpListener = "unsubscribed"
  /\ cpPending = <<>>
  /\ cpEmitted = 0
  /\ cpSubscribes = 0
  /\ cpLast = None

IdleDashboard ==
  /\ route = "none"
  /\ visit = "none"
  /\ store = InitialStore
  /\ nextId = 1
  /\ writes = 0
  /\ inflight = None
  /\ event = NoStep
  /\ listener = "unsubscribed"
  /\ pending = <<>>
  /\ last = None
  /\ subscribes = 0
  /\ loading = TRUE
  /\ saving = FALSE
  /\ deleting = FALSE
  /\ gc = GcConstructed
  /\ pr = PrConstructed
  /\ pa = PaConstructed
  /\ od = OdConstructed

NextPartners ==
  \/ PartnersEmit
  \/ PartnersOnSnapshot
  \/ PartnersOnError
  \/ PartnersUnmount

InitPartners ==
  /\ InitPartnersPage
  /\ IdleCompletedPage /\ IdleProgress /\ IdleRollup /\ IdleCleanForm
  /\ IdleDashboard
  /\ IdleTwoSessions

SpecPartners == InitPartners /\ [][NextPartners]_vars

NextCompleted ==
  \/ CompletedEmit
  \/ CompletedOnSnapshot
  \/ CompletedOnError
  \/ CompletedUnmount

InitCompleted ==
  /\ InitCompletedPage
  /\ IdlePartnersPage /\ IdleProgress /\ IdleRollup /\ IdleCleanForm
  /\ IdleDashboard
  /\ IdleTwoSessions

SpecCompleted == InitCompleted /\ [][NextCompleted]_vars

NextProgress ==
  \/ RenderDashboardBar
  \/ RenderOldDashboardBar
  \/ RenderLedgerBar
  \/ RenderGivingCircleBar
  \/ RenderAdminGivingCircleBar

InitProgressBars ==
  /\ InitProgress
  /\ IdlePartnersPage /\ IdleCompletedPage /\ IdleRollup /\ IdleCleanForm
  /\ IdleDashboard
  /\ IdleTwoSessions

SpecProgress == InitProgressBars /\ [][NextProgress]_vars

NextRollup ==
  \/ RollupReorder
  \/ LedgerRollup
  \/ PartnersRollup

InitRollups ==
  /\ InitRollup
  /\ IdlePartnersPage /\ IdleCompletedPage /\ IdleProgress /\ IdleCleanForm
  /\ IdleDashboard
  /\ IdleTwoSessions

SpecRollup == InitRollups /\ [][NextRollup]_vars

\* part_002 lines 1304-1309 and 1323: the completion modal is opened on the
\* record that holds the payload, and submitted as prefilled
ReopenAndSubmit ==
  /\ cfClean # None
  /\ cfAgain = None
  /\ CompletionRequired(prefillCompletionForm(cfClean))
  /\ cfAgain' = Some(buildCleanCompletionData(prefillCompletionForm(cfClean)))
  /\ UNCHANGED << cfForm, cfClean, cfCleanOld, cfAgainOld >>
  /\ UNCHANGED cfOthers

\* src/app/dashboard/projects/page.tsx lines 162-185 and 298
OldReopenAndSubmit ==
  /\ cfCleanOld # None
  /\ cfAgainOld = None
  /\ OldCompletionRequired(OldPrefill(cfCleanOld[1]))
  /\ cfAgainOld' = Some(cleanCompletionData(OldPrefill(cfCleanOld[1])))
  /\ UNCHANGED << cfForm, cfClean, cfCleanOld, cfAgain >>
  /\ UNCHANGED cfOthers

NextClean ==
  \/ BuildClean
  \/ BuildCleanOld
  \/ ReopenAndSubmit
  \/ OldReopenAndSubmit

InitClean ==
  /\ InitCleanForm
  /\ IdlePartnersPage /\ IdleCompletedPage /\ IdleProgress /\ IdleRollup
  /\ IdleDashboard
  /\ IdleTwoSessions

SpecClean == InitClean /\ [][NextClean]_vars

NextDashboard ==
  \/ GcOnSnapshot
  \/ GcOnError
  \/ openWorkspaceModal
  \/ setWorkspaceForm
  \/ closeWorkspaceModal
  \/ handleWorkspaceSubmit
  \/ openDeleteWorkspace
  \/ cancelDeleteWorkspace
  \/ handleDeleteWorkspace
  \/ openExpenseModal
  \/ setExpenseForm
  \/ closeExpenseModal
  \/ handleExpenseSubmit
  \/ openDeleteExpense
  \/ cancelDeleteExpense
  \/ handleDeleteExpense
  \/ ProjectsOnSnapshot
  \/ ProjectsOnError
  \/ openProjectModal
  \/ setFormData
  \/ closeProjectModal
  \/ handleProjectSubmit
  \/ openDeleteProject
  \/ cancelDeleteProject
  \/ handleDeleteProject
  \/ openSubModal
  \/ setSubFormData
  \/ closeSubModal
  \/ handleSubProjectSubmit
  \/ openDeleteSubProject
  \/ cancelDeleteSubProject
  \/ handleDeleteSubProject
  \/ openCompletionModal
  \/ openSubCompletionModal
  \/ setCompletionFormData
  \/ closeCompletionModal
  \/ handleCompletionSubmit
  \/ OldProjectsOnSnapshot
  \/ OldProjectsOnError
  \/ handleOpenModal
  \/ OldSetFormData
  \/ handleCloseModal
  \/ OldHandleSubmit
  \/ handleOpenCompletionModal
  \/ OldSetCompletionFormData
  \/ handleCloseCompletionModal
  \/ OldHandleCompletionSubmit
  \/ handleOpenDeleteModal
  \/ handleCloseDeleteModal
  \/ OldHandleDelete
  \/ AdminPartnersOnSnapshot
  \/ AdminPartnersOnError
  \/ openModal
  \/ setPartnerFormData
  \/ closeModal
  \/ handleSubmit
  \/ openDeletePartner
  \/ cancelDeletePartner
  \/ handleDelete
  \/ StoreResolve
  \/ StoreReject
  \/ Unsubscribe

InitDashboard ==
  /\ InitDashboardPage
  /\ IdleTwoSessions
  /\ IdlePartnersPage /\ IdleCompletedPage /\ IdleProgress /\ IdleRollup /\ IdleCleanForm

SpecDashboard == InitDashboard /\ [][NextDashboard]_vars

\* the administrator opens the projects page for the testimonials of the
\* completion form
InitTestimonialsVisit ==
  /\ route = "projects" /\ visit = "testimonials"
  /\ store = InitialStore
  /\ nextId = 1
  /\ writes = 0
  /\ inflight = None
  /\ event = NoStep
  /\ listener = "listening"
  /\ pending = << InitialStore.projects >>
  /\ last = None
  /\ subscribes = 1
  /\ loading = TRUE
  /\ saving = FALSE
  /\ deleting = FALSE
  /\ gc = GcConstructed
  /\ pr = PrConstructed
  /\ pa = PaConstructed
  /\ od = OdConstructed

NextCompletionForm ==
  \/ ProjectsOnSnapshot
  \/ ProjectsOnError
  \/ openCompletionModal
  \/ openSubCompletionModal
  \/ addTestimonial
  \/ updateTestimonial
  \/ removeTestimonial
  \/ closeCompletionModal
  \/ Unsubscribe

InitCompletionForm ==
  /\ InitTestimonialsVisit
  /\ IdleTwoSessions
  /\ IdlePartnersPage /\ IdleCompletedPage /\ IdleProgress /\ IdleRollup /\ IdleCleanForm

SpecCompletionForm == InitCompletionForm /\ [][NextCompletionForm]_vars

\* the snapshot callback of the mounted page; the event loop runs every
\* callback that is queued, so a queued snapshot is not left waiting for ever
SnapshotDelivery ==
  GcOnSnapshot \/ ProjectsOnSnapshot \/ OldProjectsOnSnapshot \/ AdminPartnersOnSnapshot

SpecDashboardFair == InitDashboard /\ [][NextDashboard]_vars /\ WF_vars(SnapshotDelivery)

NextTwoSessions ==
  \/ \E s \in Sessions : SessionExpenseSubmit(s)
  \/ \E s \in Sessions : SessionExpenseDelete(s)
  \/ \E s \in Sessions : SessionSubProjectSubmit(s)
  \/ \E s \in Sessions : SessionSubProjectDelete(s)
  \/ \E s \in Sessions : SessionSubCompletion(s)
  \/ \E s \in Sessions : SessionOnSnapshot(s)
  \/ \E s \in Sessions : SessionResolve(s)
  \/ \E s \in Sessions : SessionReject(s)

InitSessions ==
  /\ InitTwoSessions
  /\ IdleDashboard
  /\ IdlePartnersPage /\ IdleCompletedPage /\ IdleProgress /\ IdleRollup /\ IdleCleanForm

SpecTwoSessions == InitSessions /\ [][NextTwoSessions]_vars

\* ------------------------------------------------------------------------
\* Properties
\* ------------------------------------------------------------------------

Acme == [ id |-> "acme", name |-> << "A","c","m","e" >>, amount |-> None ]

ACME == [ id |-> "x1", name |-> << "A","C","M","E" >>, amount |-> None ]

Beta == [ id |-> "x2", name |-> << "B","e","t","a" >>, amount |-> None ]

\* the live partner at position i has the lowercased name of no seed entry
NoSeedNamed(i) ==
  \A j \in 1..Len(FOUNDING_PARTNERS) :
    toLowerCase(FOUNDING_PARTNERS[j].name) # toLowerCase(firestorePartners[i].name)

\* the positions of the live partners that no seed entry suppresses
ShownLive == { i \in 1..Len(firestorePartners) : NoSeedNamed(i) }

\* C1: the partner grid is the seed list in its fixed order followed by the
\* live partners in their order, a live partner being in it if and only if
\* its lowercased name equals no seed entry's lowercased name; seed [Acme]
\* merged with live [ACME, Beta] gives [Acme, Beta].
C1_MergeSeedFirst ==
  LET n    == Len(FOUNDING_PARTNERS)
      rest == SubSeq(displayPartners, n + 1, Len(displayPartners))
      nth(k) == CHOOSE i \in ShownLive : Cardinality({ j \in ShownLive : j <= i }) = k
  IN  /\ Len(displayPartners) >= n
      /\ SubSeq(displayPartners, 1, n) = FOUNDING_PARTNERS
      /\ Len(rest) = Cardinality(ShownLive)
      /\ \A k \in 1..Len(rest) : rest[k] = firestorePartners[nth(k)]
      /\ RenderPartnerGrid(<< Acme >>, << ACME, Beta >>) = << Acme, Beta >>

\* C1 witness: a snapshot with a suppressed and a shown live partner was merged
C1_Witness ==
  /\ ppLast # None
  /\ Len(firestorePartners) = 3
  /\ Cardinality(ShownLive) = 2
  /\ Len(displayPartners) = 5

\* the ids of the items the documents of a snapshot must yield
ExpectedItemIds(docs) ==
  { << docs[i].id >> : i \in { k \in 1..Len(docs) : docs[k].isCompleted /\ ~docs[k].isParent } }
  \cup
  UNION { { << docs[i].id, docs[i].subProjects[1][m].id >> :
              m \in { k \in 1..Len(docs[i].subProjects[1]) : docs[i].subProjects[1][k].isCompleted } } :
          i \in { k \in 1..Len(docs) : docs[k].isParent /\ docs[k].subProjects # None } }

\* C2: after every projects snapshot the flattened list holds exactly one
\* item per completed non-parent project and one per completed sub-project
\* of a parent project, and nothing else; every sub-project item carries its
\* parent's title as parentTitle and the sub-project's own community name.
C2_FlattenExact ==
  cpLast # None =>
    LET docs == cpLast[1]
    IN  /\ { completedItems[i].id : i \in 1..Len(completedItems) } = ExpectedItemIds(docs)
        /\ Len(completedItems) = Cardinality(ExpectedItemIds(docs))
        /\ \A i \in 1..Len(completedItems) :
             LET item == completedItems[i]
             IN  IF item.isSubProject
                 THEN \E d \in 1..Len(docs) :
                        /\ docs[d].isParent
                        /\ docs[d].subProjects # None
                        /\ \E m \in 1..Len(docs[d].subProjects[1]) :
                             LET sub == docs[d].subProjects[1][m]
                             IN  /\ item.id = << docs[d].id, sub.id >>
                                 /\ sub.isCompleted
                                 /\ item.title = sub.title
                                 /\ item.parentTitle = Some(docs[d].title)
                                 /\ item.communityName = sub.communityName
                 ELSE /\ item.parentTitle = None
                      /\ \E d \in 1..Len(docs) :
                           /\ item.id = << docs[d].id >>
                           /\ docs[d].isCompleted
                           /\ ~docs[d].isParent

\* C2 witness: the Water Program (two completed wells, one not) was flattened
\* together with a completed project that is no parent
C2_Witness ==
  /\ cpLast # None
  /\ \E i \in 1..Len(cpLast[1]) : cpLast[1][i] = WaterProgram
  /\ \E i \in 1..Len(completedItems) :
       /\ completedItems[i].id = << "water", "sub_a" >>
       /\ completedItems[i].parentTitle = Some("Water Program")
  /\ \E i \in 1..Len(completedItems) : completedItems[i].id = << "school" >>
  /\ \A i \in 1..Len(completedItems) : completedItems[i].id # << "water", "sub_b" >>

\* C3: for a record with goal and raised fields, the bar width every page
\* draws is 0 when goal <= 0 and min(raised / goal * 100, 100) otherwise, and
\* no division by a zero goal is evaluated.
C3_BarWidth ==
  /\ 0 \notin pgDivisors
  /\ (pgRaised # None /\ pgGoal # None) =>
       \A page \in BarPages :
         pgWidth[page] # None =>
           LET w      == pgWidth[page][1]
               raised == pgRaised[1]
               goal   == pgGoal[1]
           IN  IF goal <= 0 THEN w = Whole(0)
               ELSE IF raised * 100 >= 100 * goal THEN w = Whole(100)
               ELSE w.d > 0 /\ w.n * goal = raised * 100 * w.d

\* C3 witness: every page has drawn the bar of a record whose goal is 0
C3_Witness ==
  /\ pgGoal = Some(0)
  /\ pgRaised = Some(30)
  /\ \A page \in BarPages : pgWidth[page] = Some(Whole(0))

\* the sum of the amounts of a set of records
RECURSIVE AmountOfSet(_)
AmountOfSet(S) ==
  IF S = {} THEN 0
  ELSE LET x == CHOOSE y \in S : TRUE
       IN  OrZero(x.amount) + AmountOfSet(S \ { x })

\* C4: the rollup totals (the sum of the amounts, an absent amount counting
\* as 0, and the record count) depend only on which records the list holds,
\* not on their order; amounts [100, 250] give sum 350 and count 2 either way.
C4_RollupOrderIndependent ==
  LET records == Range(rlBase)
      a == [ id |-> "a", type |-> "income", amount |-> Some(100) ]
      b == [ id |-> "b", type |-> "income", amount |-> Some(250) ]
  IN  /\ rlLedger # None =>
            rlLedger[1].totals =
              [ totalIncome   |-> AmountOfSet({ r \in records : r.type = "income" }),
                totalExpenses |-> AmountOfSet({ r \in records : r.type = "expense" }),
                count         |-> Cardinality(records) ]
      /\ rlPartners # None =>
            rlPartners[1].totals =
              [ totalContributed |-> AmountOfSet(records), count |-> Cardinality(records) ]
      /\ PartnersTotals(<< a, b >>) = [ totalContributed |-> 350, count |-> 2 ]
      /\ PartnersTotals(<< b, a >>) = [ totalContributed |-> 350, count |-> 2 ]

\* C4 witness: both pages computed their totals on a reordered list that
\* holds a record without an amount
C4_Witness ==
  /\ Len(rlBase) >= 3
  /\ \E i \in 1..Len(rlBase) : rlBase[i].amount = None
  /\ rlLedger # None /\ rlLedger[1].reordered
  /\ rlPartners # None /\ rlPartners[1].reordered
  /\ rlPartners[1].totals.totalContributed > 0

\* every character of the text is white space (so is the empty text)
IsBlank(u) == \A i \in 1..Len(u) : u[i] \in WhiteSpace

\* out is s with the entries at the positions in K kept, in their order
KeepsExactly(out, s, K) ==
  /\ Len(out) = Cardinality(K)
  /\ \A k \in 1..Len(out) :
       out[k] = s[CHOOSE i \in K : Cardinality({ j \in K : j <= i }) = k]

\* the payloads built so far, by either version of the dashboard
BuiltPayloads == { o[1] : o \in { cfClean, cfCleanOld } \ { None } }

\* C5: for each of beforeImages, afterImages and progressImages the persisted
\* array is the form array without its empty and whitespace-only entries,
\* the others kept in their order; ["", "http://x/1.jpg", ""] persists as
\* ["http://x/1.jpg"].
C5_ImagesCleaned ==
  /\ \A payload \in BuiltPayloads : \A f \in ImageFields :
       KeepsExactly(payload[f], cfForm[f],
                    { i \in 1..Len(cfForm[f]) : ~IsBlank(cfForm[f][i]) })
  /\ buildCleanCompletionData(
       [ defaultCompletionForm EXCEPT !.beforeImages = << <<>>, << "h", "1" >>, <<>> >> ]
     ).beforeImages = << << "h", "1" >> >>

\* C5 witness: a form with an empty, a filled and a blank URL was cleaned
C5_Witness ==
  /\ cfClean # None
  /\ cfCleanOld # None
  /\ cfForm.afterImages = << <<>>, << " ", "h", "2" >>, << " " >> >>
  /\ cfClean[1].afterImages = << << " ", "h", "2" >> >>

\* C6 as claimed: a testimonial is dropped only when it lacks both its name
\* and its text; one with a name or a text is persisted.
C6_AsClaimed ==
  \A payload \in BuiltPayloads :
    KeepsExactly(payload.testimonials, cfForm.testimonials,
                 { i \in 1..Len(cfForm.testimonials) :
                     ~(IsBlank(cfForm.testimonials[i].name) /\ IsBlank(cfForm.testimonials[i].text)) })

\* C6: a testimonial is persisted only when it has both a name and a text;
\* an entry whose name or whose text is blank is dropped from the payload.
C6_KeepsOnlyComplete ==
  \A payload \in BuiltPayloads :
    KeepsExactly(payload.testimonials, cfForm.testimonials,
                 { i \in 1..Len(cfForm.testimonials) :
                     ~IsBlank(cfForm.testimonials[i].name) /\ ~IsBlank(cfForm.testimonials[i].text) })

\* C6 witness: a form with a complete testimonial and one without text was
\* cleaned, and only the complete one was kept
C6_Witness ==
  /\ cfClean # None
  /\ cfCleanOld # None
  /\ Len(cfForm.testimonials) = 2
  /\ \E i \in 1..2 : /\ ~IsBlank(cfForm.testimonials[i].name)
                     /\ IsBlank(cfForm.testimonials[i].text)
  /\ Len(cfClean[1].testimonials) = 1

\* the ids of the expenses embedded in the documents of a collection
ExpenseIdsOf(coll) ==
  UNION { { e.id : e \in Range(SeqOr(w, "expenses")) } : w \in Range(coll) }

WithoutId(coll, id) == SelectSeq(coll, LAMBDA d : d.id # id)

\* C7: on the step where the store accepts the delete of a workspace, the
\* workspace is gone from the store, no expense it held is left in any
\* document, every other workspace is there as before with its expenses, in
\* its place, and the other collections are as before
C7_DeleteWorkspaceRemovesExpenses ==
  [][ (event'.handler = "handleDeleteWorkspace" /\ event'.outcome = "resolved")
      => LET id   == gc.deletingWorkspace[1].id
             held == ExpenseIdsOf(SelectSeq(store.workspaces, LAMBDA w : w.id = id))
         IN  /\ ~HasDoc(store'.workspaces, id)
             /\ held \cap ExpenseIdsOf(store'.workspaces) = {}
             /\ store'.workspaces = WithoutId(store.workspaces, id)
             /\ store'.projects = store.projects
             /\ store'.partners = store.partners ]_vars

C7_Witness ==
  /\ event.handler = "handleDeleteWorkspace"
  /\ event.outcome = "resolved"
  /\ ~HasDoc(store.workspaces, AcmeWorkspace.id)
  /\ ExpenseIdsOf(store.workspaces) = {}
  /\ store.workspaces = << BetaWorkspace >>

\* C8: once a snapshot has been delivered to the mounted page, the list of
\* the page is exactly the snapshot delivered last and the page is not
\* loading; snapshots arrive in the order of emission, so a listening page
\* with nothing left to deliver shows the collection as stored
C8_ViewIsLatestSnapshot ==
  (route # "none" /\ last # None)
  => /\ ViewList = last[1]
     /\ ~loading
     /\ (listener = "listening" /\ pending = <<>>) => ViewList = store[CollectionOf(route)]

C8_Witness ==
  /\ route = "giving-circle"
  /\ last # None
  /\ last[1] # InitialStore.workspaces
  /\ gc.workspaces = last[1]
  /\ Len(gc.workspaces) = 3
  /\ ~loading

\* C9 as claimed: after a subscription error the page is not loading and
\* its list is empty
C9_AsClaimed ==
  cpListener = "errored" => (~cpLoading /\ completedItems = <<>> /\ cpSubscribes = 1)

\* C9: on a subscription error the page stops loading and keeps the list it
\* had, the items of the snapshot delivered last (empty only when none was
\* delivered); from then on the list, the flag and the number of
\* subscriptions stay as they are and the listener never listens again
C9_ErrorKeepsList ==
  [][ /\ (cpListener = "listening" /\ cpListener' = "errored")
         => /\ ~cpLoading'
            /\ completedItems' = completedItems
            /\ completedItems' = IF cpLast = None THEN <<>>
                                 ELSE SortByDateDesc(Flatten(cpLast[1]))
            /\ cpSubscribes' = cpSubscribes
      /\ cpListener = "errored"
         => /\ ~cpLoading /\ ~cpLoading'
            /\ completedItems' = completedItems
            /\ cpSubscribes' = cpSubscribes
            /\ cpSubscribes = 1
            /\ cpListener' # "listening" ]_vars

C9_Witness ==
  /\ cpListener = "errored"
  /\ cpLast # None
  /\ completedItems # <<>>
  /\ ~cpLoading

\* the first part of a submit handler has run: it returned on its
\* validation, or it issued its write
Submitted(handler) == event'.handler = handler /\ event'.outcome \in { "invalid", "issued" }

NoWriteIssued ==
  /\ store' = store
  /\ inflight = None /\ inflight' = None
  /\ writes' = writes
  /\ ~saving'

\* C10: a submit of the project, sub-project, partner, workspace or expense
\* form with a required field missing, or with a goal <= 0, issues no
\* write: the store is as before and no write call is awaited
C10_InvalidSubmitWritesNothing ==
  [][ /\ ( /\ Submitted("handleProjectSubmit")
           /\ (pr.formData.title = "" \/ pr.formData.description = "" \/ pr.formData.goal <= 0) )
         => NoWriteIssued
      /\ ( /\ Submitted("handleSubProjectSubmit")
           /\ (pr.subFormData.title = "" \/ pr.subFormData.goal <= 0) )
         => NoWriteIssued
      /\ (Submitted("handleSubmit") /\ pa.formData.name = "") => NoWriteIssued
      /\ (Submitted("handleWorkspaceSubmit") /\ gc.workspaceForm.name = "") => NoWriteIssued
      /\ (Submitted("handleExpenseSubmit") /\ gc.expenseForm.description = "") => NoWriteIssued
    ]_vars

C10_Witness ==
  /\ event.handler = "handleSubProjectSubmit"
  /\ event.outcome = "invalid"
  /\ pr.subModalParent # None
  /\ pr.subFormData.title # ""
  /\ pr.subFormData.goal < 0
  /\ inflight = None
  /\ store = InitialStore

\* the form a submit handler reads fails the validation the claims speak of:
\* a required field is missing, or the goal is <= 0
FormFails(handler) ==
  CASE handler = "handleProjectSubmit" ->
         pr.formData.title = "" \/ pr.formData.description = "" \/ pr.formData.goal <= 0
    [] handler = "handleSubProjectSubmit" ->
         pr.subFormData.title = "" \/ pr.subFormData.goal <= 0
    [] handler = "handleSubmit" -> pa.formData.name = ""
    [] handler = "handleWorkspaceSubmit" -> gc.workspaceForm.name = ""
    [] handler = "handleExpenseSubmit" -> gc.expenseForm.description = ""

AlertingForms == { "handleProjectSubmit", "handleSubProjectSubmit", "handleSubmit" }

SilentForms == { "handleWorkspaceSubmit", "handleExpenseSubmit" }

ModalOpenFor(handler) ==
  CASE handler = "handleWorkspaceSubmit"  -> gc.showWorkspaceModal
    [] handler = "handleExpenseSubmit"    -> gc.showExpenseModal /\ gc.expenseParent # None
    [] handler = "handleDeleteWorkspace"  -> gc.showDeleteWorkspace /\ gc.deletingWorkspace # None
    [] handler = "handleDeleteExpense"    -> gc.showDeleteExpense /\ gc.deletingExpense # None
    [] handler = "handleProjectSubmit"    -> pr.showModal
    [] handler = "handleSubProjectSubmit" -> pr.showSubModal /\ pr.subModalParent # None
    [] handler = "handleDeleteProject"    -> pr.showDeleteModal /\ pr.deletingProject # None
    [] handler = "handleDeleteSubProject" -> pr.showDeleteSubModal /\ pr.deletingSubProject # None
    [] handler = "handleCompletionSubmit" -> pr.showCompletionModal /\ pr.completingProject # None
    [] handler = "handleSubmit"           -> pa.showModal
    [] handler = "handleDelete"           -> pa.showDeleteModal /\ pa.deletingPartner # None
    [] handler = "old/handleSubmit"       -> od.showModal
    [] handler = "old/handleCompletionSubmit" ->
         od.showCompletionModal /\ od.completingProject # None
    [] handler = "old/handleDelete"       -> od.showDeleteModal /\ od.deletingProject # None

\* C12: on the step where the store rejects a write, an alert is raised,
\* the store is as before, the page keeps every field of its state (the
\* modal of the handler is open, with its target and its form), and the
\* saving or deleting flag that was up is down again, with no write awaited
C12_RejectedWriteKeepsModal ==
  [][ event'.outcome = "rejected"
      => /\ event'.alert
         /\ store' = store
         /\ pageVars' = pageVars
         /\ inflight # None /\ ModalOpenFor(inflight[1].handler)
         /\ saving \/ deleting
         /\ ~saving' /\ ~deleting'
         /\ inflight' = None ]_vars

C12_Witness ==
  /\ event.handler = "handleSubProjectSubmit"
  /\ event.outcome = "rejected"
  /\ event.alert
  /\ pr.showSubModal
  /\ pr.subModalParent = Some(WellsProject)
  /\ pr.subFormData.title = "Phase 3"
  /\ store = InitialStore
  /\ ~saving

\* the array field a write call replaces, and the array it puts there
ArrayField(w) == IF "expenses" \in DOMAIN w.data THEN "expenses" ELSE "subProjects"

WrittenArray(w) == w.data[ArrayField(w)]

StoredArray(w) ==
  LET doc == CHOOSE d \in Range(store[w.coll]) : d.id = w.id
  IN  doc[ArrayField(w)]

C14_TimestampsOnWrites ==
  [][ (inflight = None /\ inflight' # None)
      => LET w == inflight'[1]
         IN  /\ w.op = "addDoc"
                => /\ { "createdAt", "updatedAt" } \subseteq DOMAIN w.data
                   /\ w.data.createdAt = Ts
                   /\ w.data.updatedAt = Ts
             /\ w.op = "updateDoc"
                => /\ "updatedAt" \in DOMAIN w.data
                   /\ w.data.updatedAt = Ts
                   /\ "createdAt" \notin DOMAIN w.data ]_vars

C14_Witness ==
  /\ event = Step("handleWorkspaceSubmit", "issued", FALSE)
  /\ inflight # None
  /\ inflight[1].op = "addDoc"
  /\ inflight[1].data.name = "Gamma"
  /\ inflight[1].data.createdAt = Ts
  /\ inflight[1].data.updatedAt = Ts

\* the completion date of an item, in days since 1 January 1970, if it has one
HasDate(item) ==
  /\ item.completionData # None
  /\ item.completionData[1].completedDate \notin { None, Some(<<>>) }

DayOf(item) == getTime(item.completionData[1].completedDate[1])

OrderKey(item) == IF HasDate(item) THEN DayOf(item) ELSE 0

Descending(items) ==
  \A i \in 1..(Len(items) - 1) : OrderKey(items[i]) >= OrderKey(items[i + 1])

\* C15 as claimed: the list is in descending order of completion date with
\* a missing date taken as 0, and every item without a completion date
\* comes after every item that has one
C15_AsClaimed ==
  /\ Descending(completedItems)
  /\ \A i, j \in 1..Len(completedItems) :
       (~HasDate(completedItems[i]) /\ HasDate(completedItems[j])) => j < i

\* C15: the list is in descending order of completion date with a missing
\* date taken as 0, and every item without a completion date comes after
\* every item whose completion date is later than 1 January 1970
C15_SortedByDate ==
  /\ Descending(completedItems)
  /\ \A i, j \in 1..Len(completedItems) :
       (/\ ~HasDate(completedItems[i])
        /\ HasDate(completedItems[j])
        /\ DayOf(completedItems[j]) > 0) => j < i

C15_Witness ==
  /\ ~cpLoading
  /\ \E i, j, k \in 1..Len(completedItems) :
       /\ i < j /\ j < k
       /\ HasDate(completedItems[i]) /\ DayOf(completedItems[i]) > 0
       /\ ~HasDate(completedItems[j])
       /\ HasDate(completedItems[k]) /\ DayOf(completedItems[k]) < 0

\* the document of the snapshot delivered last that an item was made from
ParentOf(item) == CHOOSE d \in Range(cpLast[1]) : d.id = item.id[1]

\* C16: every item of the list that was made from a sub-project has the
\* supporters, the category and the image of its parent document
C16_SubItemTakesFromParent ==
  \A i \in 1..Len(completedItems) :
    completedItems[i].isSubProject
    => /\ cpLast # None
       /\ \E d \in Range(cpLast[1]) : d.id = completedItems[i].id[1]
       /\ completedItems[i].supporters = ParentOf(completedItems[i]).supporters
       /\ completedItems[i].category = ParentOf(completedItems[i]).category
       /\ completedItems[i].image = ParentOf(completedItems[i]).image

C16_Witness ==
  /\ \E i \in 1..Len(completedItems) :
       /\ completedItems[i].id = << "water", "sub_a" >>
       /\ completedItems[i].supporters = Some(7)
       /\ completedItems[i].category = "water"
       /\ completedItems[i].image = "water.png"
  /\ \E i \in 1..Len(completedItems) :
       /\ completedItems[i].id = << "food", "sub_d" >>
       /\ completedItems[i].supporters = Some(3)

LowerNameAt(i) == toLowerCase(displayPartners[i].name)

\* C17 as claimed: no two entries of the partner grid have the same
\* lowercased name
C17_AsClaimed ==
  \A i, j \in 1..Len(displayPartners) : LowerNameAt(i) = LowerNameAt(j) => i = j

\* C17: no entry of the partner grid has the lowercased name of a seed
\* entry, but that seed entry itself; two live entries whose names differ
\* only in letter case are both in the grid
C17_OnePerSeedName ==
  /\ \A i \in 1..Len(FOUNDING_PARTNERS), j \in 1..Len(displayPartners) :
       LowerNameAt(i) = LowerNameAt(j) => i = j
  /\ \A a, b \in 1..Len(firestorePartners) :
       (a # b /\ a \in ShownLive /\ b \in ShownLive)
       => \E i, j \in (Len(FOUNDING_PARTNERS) + 1)..Len(displayPartners) :
            /\ i # j
            /\ displayPartners[i] = firestorePartners[a]
            /\ displayPartners[j] = firestorePartners[b]

C17_Witness ==
  /\ Len(firestorePartners) = 3
  /\ Len(displayPartners) = Len(FOUNDING_PARTNERS) + 2
  /\ \E i, j \in 1..Len(displayPartners) :
       /\ i # j
       /\ displayPartners[i].name = << "B","e","t","a" >>
       /\ displayPartners[j].name = << "B","E","T","A" >>
  /\ \A i \in 1..Len(displayPartners) : displayPartners[i].id # "p1"

\* a label or a width that was drawn, and not left out, by a page
Drawn(f, page) == f[page] # None /\ f[page][1] # NotRendered

\* the number x is within a half of raised / goal * 100, goal > 0
NearRatio(x, raised, goal) ==
  2 * Abs(x.n * goal - raised * 100 * x.d) <= x.d * goal

\* the label of a page is the ratio, not clamped: rounded only
LabelUnclamped(page) ==
  (Drawn(pgLabel, page) /\ pgGoal # None /\ pgGoal[1] > 0)
  => /\ pgLabel[page][1].d > 0
     /\ NearRatio(pgLabel[page][1], OrZero(pgRaised), pgGoal[1])

\* the label of a page is the ratio rounded, and 100 where the ratio is more
LabelClamped(page) ==
  (Drawn(pgLabel, page) /\ pgGoal # None /\ pgGoal[1] > 0)
  => /\ pgLabel[page][1].d > 0
     /\ IF OrZero(pgRaised) > pgGoal[1]
        THEN pgLabel[page][1] = Whole(100)
        ELSE NearRatio(pgLabel[page][1], OrZero(pgRaised), pgGoal[1])

WidthClamped(page) ==
  Drawn(pgWidth, page) => pgWidth[page][1].n <= 100 * pgWidth[page][1].d

\* C18 as claimed: on every page the label is the ratio not clamped, and
\* the width of the bar is at most 100
C18_AsClaimed ==
  \A page \in ProgressPages : LabelUnclamped(page) /\ WidthClamped(page)

\* C18: the label is the ratio not clamped on the old projects dashboard,
\* the ledger and the giving-circle dashboard; on the projects dashboard
\* and the public giving-circle page the label is clamped to 100 as the bar
\* is; the width of the bar is at most 100 on every page
C18_LabelPerPage ==
  /\ \A page \in { "oldDashboard", "ledger", "adminGivingCircle" } : LabelUnclamped(page)
  /\ \A page \in { "dashboard", "givingCircle" } : LabelClamped(page)
  /\ \A page \in ProgressPages : WidthClamped(page)

C18_Witness ==
  /\ pgRaised = Some(150)
  /\ pgGoal = Some(100)
  /\ \A page \in ProgressPages : pgWidth[page] = Some(Whole(100))
  /\ \A page \in { "oldDashboard", "ledger", "adminGivingCircle" } :
       pgLabel[page] = Some(Whole(150))
  /\ \A page \in { "dashboard", "givingCircle" } : pgLabel[page] = Some(Whole(100))

\* C19 as claimed: whatever raised and goal are, the percentage a page
\* draws its bar with is from 0 to 100
C19_AsClaimed ==
  \A page \in ProgressPages :
    Drawn(pgWidth, page)
    => /\ pgWidth[page][1].d > 0
       /\ pgWidth[page][1].n >= 0
       /\ pgWidth[page][1].n <= 100 * pgWidth[page][1].d

\* C19: the percentage a page draws its bar with is at most 100 whatever
\* raised and goal are; it is at least 0 when raised is not negative, and
\* is negative when raised is negative and the goal is positive
C19_PercentageRange ==
  \A page \in ProgressPages :
    Drawn(pgWidth, page)
    => /\ pgWidth[page][1].d > 0
       /\ pgWidth[page][1].n <= 100 * pgWidth[page][1].d
       /\ OrZero(pgRaised) >= 0 => pgWidth[page][1].n >= 0
       /\ (OrZero(pgRaised) < 0 /\ pgGoal # None /\ pgGoal[1] > 0)
          => pgWidth[page][1].n < 0

C19_Witness ==
  /\ pgRaised = Some(-50)
  /\ pgGoal = Some(300)
  /\ \A page \in ProgressPages : pgWidth[page] = Some(Ratio(-50, 3))

\* C20: every document of the projects collection has a goal > 0, and so has
\* every sub-project in its subProjects array, whatever the project forms of
\* the two dashboards and the sub-project form have written
C20_GoalsPositive ==
  \A i \in 1..Len(store.projects) :
    /\ "goal" \in DOMAIN store.projects[i]
    /\ store.projects[i].goal > 0
    /\ \A k \in 1..Len(SeqOr(store.projects[i], "subProjects")) :
         /\ "goal" \in DOMAIN store.projects[i].subProjects[k]
         /\ store.projects[i].subProjects[k].goal > 0

C20_Witness ==
  /\ event = Step("handleSubProjectSubmit", "resolved", FALSE)
  /\ \E i \in 1..Len(store.projects) :
       /\ store.projects[i].id = WellsProject.id
       /\ Len(store.projects[i].subProjects) = 3
       /\ store.projects[i].subProjects[3].id = << "new", 1 >>
       /\ store.projects[i].subProjects[3].goal = 150

\* a record carries completion data with a date and a story that are not empty
HasCompletionData(rec) ==
  /\ "completionData" \in DOMAIN rec
  /\ "completedDate" \in DOMAIN rec.completionData
  /\ rec.completionData.completedDate # <<>>
  /\ "completionStory" \in DOMAIN rec.completionData
  /\ rec.completionData.completionStory # <<>>

\* C21: in the store, every project and every sub-project whose completed
\* flag is true carries completion data with a non-empty completion date and
\* a non-empty completion story
C21_CompletedHasDateAndStory ==
  \A i \in 1..Len(store.projects) :
    /\ FlagOr(store.projects[i], "isCompleted", FALSE) => HasCompletionData(store.projects[i])
    /\ \A k \in 1..Len(SeqOr(store.projects[i], "subProjects")) :
         FlagOr(store.projects[i].subProjects[k], "isCompleted", FALSE)
           => HasCompletionData(store.projects[i].subProjects[k])

\* the queue of the subscription grew by one snapshot at its end
Emitted == Len(pending') = Len(pending) + 1 /\ SubSeq(pending', 1, Len(pending)) = pending

\* the snapshot at the head of the queue reached the view
Delivered == pending' = Tail(pending) /\ ViewList' = Head(pending) /\ ~loading'

\* C22: after the teardown of a view (listener unsubscribed) no step changes
\* its record list or its loading flag, whatever happens to the collection,
\* and the listener stays unsubscribed; while the subscription is alive its
\* queue changes only by a snapshot emitted at its end or by its head
\* reaching the view, and again and again no emitted snapshot is left
\* waiting (the subscription has ended, by teardown or by error, or every
\* snapshot emitted so far has reached the view)
C22_TeardownStopsUpdates ==
  /\ [][ listener = "unsubscribed"
           => listener' = "unsubscribed" /\ ViewList' = ViewList /\ loading' = loading ]_vars
  /\ [][ listener = "listening" /\ listener' = "listening" /\ pending' # pending
           => Emitted \/ Delivered ]_vars
  /\ []<>(listener # "listening" \/ pending = <<>>)

\* the first snapshot reached the view, a write was issued, the view was torn
\* down, and the write changed the collection afterwards
C22_Witness ==
  /\ listener = "unsubscribed"
  /\ event.outcome = "resolved"
  /\ last # None
  /\ ViewList = last[1]
  /\ store[CollectionOf(route)] # ViewList

\* C23: whatever the state of the public partners page (still loading,
\* after a subscription error, with an empty or a non-empty live list, torn
\* down), every seed partner is in the displayed partner list
C23_SeedsAlwaysShown ==
  \A i \in 1..Len(FOUNDING_PARTNERS) :
    \E j \in 1..Len(displayPartners) : displayPartners[j] = FOUNDING_PARTNERS[i]

\* the subscription failed after a live list with a partner of a seed's name
\* and a partner of another name was shown
C23_Witness ==
  /\ ppListener = "errored"
  /\ ~ppLoading
  /\ \E a, b \in 1..Len(firestorePartners) :
       /\ toLowerCase(firestorePartners[a].name) \in foundingIds(FOUNDING_PARTNERS)
       /\ toLowerCase(firestorePartners[b].name) \notin foundingIds(FOUNDING_PARTNERS)
  /\ Len(displayPartners) > Len(FOUNDING_PARTNERS)

\* the blank form of lines 1032-1040
BlankCompletionForm ==
  /\ pr.completionFormData.testimonials = << EmptyTestimonial >>
  /\ pr.completionFormData.beforeImages = << <<>> >>
  /\ pr.completionFormData.afterImages = << <<>> >>
  /\ pr.completionFormData.progressImages = << <<>> >>
  /\ pr.completionFormData.completionStory = <<>>

\* the completion modal was opened in this step
CompletionModalOpened ==
  /\ ~(pr.showCompletionModal /\ pr.completingProject # None)
  /\ pr'.showCompletionModal /\ pr'.completingProject # None

\* the record the modal was opened for has no stored completion data
OpenedWithoutData ==
  IF pr'.completingSubProject # None
  THEN CompletionDataOf(pr'.completingSubProject[1]) = None
  ELSE CompletionDataOf(pr'.completingProject[1]) = None

\* C24: a step that opens the completion modal for a project or sub-project
\* without stored completion data leaves the blank default form in the
\* modal: one testimonial with empty name, text and role, one empty URL per
\* image list, an empty story
C24_OpensBlankForm ==
  [][ CompletionModalOpened /\ OpenedWithoutData => BlankCompletionForm' ]_vars

IdsOf(entries) == { entries[i].id : i \in 1..Len(entries) }

\* the expenses of a workspace, the subProjects of a project
EntriesOf(doc) == IF IsWorkspace(doc) THEN SeqOr(doc, "expenses") ELSE SeqOr(doc, "subProjects")

\* the entries the list of the view had at the submit and the parent
\* captured by the modal has not
OnlyInNewer(s) == IdsOf(EntriesOf(sessions[s].seen)) \ IdsOf(EntriesOf(sessions[s].parent))

\* C25: the array a session writes (expense or sub-project add, edit,
\* delete, sub-project completion) has the entries of the parent captured
\* when the modal was opened and at most the entry the submit adds; an entry
\* that only the newer snapshot in the list of the view had at the submit is
\* not in it, and is not in the stored array once the write is the one
\* applied last
C25_WrittenFromCapturedParent ==
  \A s \in Sessions :
    sessions[s].call # None
    => LET w == sessions[s].call[1]
       IN  /\ IdsOf(WrittenArray(w))
                \subseteq IdsOf(EntriesOf(sessions[s].parent)) \cup { << "new", s >> }
           /\ IdsOf(WrittenArray(w)) \cap OnlyInNewer(s) = {}
           /\ (applied # <<>> /\ applied[Len(applied)] = s)
                => IdsOf(StoredArray(w)) \cap OnlyInNewer(s) = {}

\* the other session's added entry had reached the view before the submit,
\* and the write of this session has removed it from the store
C25_Witness ==
  /\ Len(applied) = 2
  /\ LET s == applied[2]
         w == sessions[s].call[1]
     IN  /\ << "new", applied[1] >> \in OnlyInNewer(s)
         /\ << "new", applied[1] >> \notin IdsOf(StoredArray(w))
         /\ w.handler = "handleCompletionSubmit"

\* C26: a completion modal opened on completion data that the completion
\* form wrote, and submitted without an edit, writes completion data equal
\* to the stored one, on either version of the dashboard; and the clean-up
\* applied to a cleaned form gives that form
C26_PrefillCleanRoundTrip ==
  /\ cfAgain # None => cfAgain = cfClean
  /\ cfAgainOld # None => cfAgainOld = cfCleanOld
  /\ cfClean # None => buildCleanCompletionData(cfClean[1]) = cfClean[1]
  /\ cfCleanOld # None => cleanCompletionData(cfCleanOld[1]) = cfCleanOld[1]

\* a form with a blank and a filled image URL and no complete testimonial
\* was written, reopened and written again on both versions
C26_Witness ==
  /\ cfAgain # None
  /\ cfAgainOld # None
  /\ Len(cfForm.afterImages) = 3
  /\ Len(cfClean[1].afterImages) = 1
  /\ cfClean[1].testimonials = <<>>
  /\ prefillCompletionForm(cfClean).testimonials = << EmptyTestimonial >>
  /\ OldPrefill(cfCleanOld[1]).beforeImages # prefillCompletionForm(cfClean).beforeImages

\* the document of the projects collection with this id
StoredProject(coll, id) == coll[CHOOSE i \in 1..Len(coll) : DocId(coll[i]) = id]

CompletionFields == { "isCompleted", "completionData" }

\* handleCompletionSubmit issues its write for a sub-project in this step
SubCompletionIssued ==
  /\ inflight = None
  /\ inflight' # None
  /\ inflight'[1].handler = "handleCompletionSubmit"
  /\ pr.completingSubProject # None

\* the store applies the write of a sub-project completion in this step
SubCompletionApplied ==
  /\ inflight # None
  /\ inflight[1].handler = "handleCompletionSubmit"
  /\ "subProjects" \in DOMAIN inflight[1].data
  /\ event'.outcome = "resolved"

\* C27: the array that a sub-project completion writes has the length and
\* the order of the parent's array; the entry with the id of the sub-project
\* has the completed flag set and the completion data of the form, and its
\* other fields as before; every other entry is as before; the write has no
\* field of the parent but subProjects and updatedAt, and the stored parent
\* keeps its own completed flag and completion data when it is applied
C27_SubCompletionFrame ==
  /\ [][ SubCompletionIssued =>
           LET old     == SeqOr(pr.completingProject[1], "subProjects")
               written == inflight'[1].data.subProjects
               id      == pr.completingSubProject[1].id
           IN  /\ DOMAIN inflight'[1].data = { "subProjects", "updatedAt" }
               /\ Len(written) = Len(old)
               /\ \A i \in 1..Len(old) :
                    IF old[i].id = id
                    THEN /\ written[i].isCompleted
                         /\ written[i].completionData.completionStory
                              = pr.completionFormData.completionStory
                         /\ written[i].completionData.completedDate
                              = pr.completionFormData.completedDate
                         /\ DOMAIN written[i] = DOMAIN old[i] \cup CompletionFields
                         /\ \A f \in DOMAIN old[i] \ CompletionFields :
                              written[i][f] = old[i][f]
                    ELSE written[i] = old[i] ]_vars
  /\ [][ SubCompletionApplied =>
           LET before == StoredProject(store.projects, inflight[1].id)
               after  == StoredProject(store'.projects, inflight[1].id)
           IN  /\ after.subProjects = inflight[1].data.subProjects
               /\ DOMAIN after = DOMAIN before \cup { "subProjects", "updatedAt" }
               /\ \A f \in DOMAIN before \ { "subProjects", "updatedAt" } :
                    after[f] = before[f] ]_vars

\* Phase 2 of Wells was marked complete: Phase 1 is as it was, and Wells is
\* not completed
C27_Witness ==
  /\ event = Step("handleCompletionSubmit", "resolved", TRUE)
  /\ LET wells == StoredProject(store.projects, WellsProject.id)
     IN  /\ Len(wells.subProjects) = 2
         /\ wells.subProjects[1] = PhaseOne
         /\ wells.subProjects[2].id = PhaseTwo.id
         /\ wells.subProjects[2].isCompleted
         /\ wells.subProjects[2].title = PhaseTwo.title
         /\ ~wells.isCompleted
         /\ "completionData" \notin DOMAIN wells

\* a handler issues its write in this step
Issued(handler) ==
  /\ inflight = None
  /\ inflight' # None
  /\ inflight'[1].handler = handler

\* written is old with the entry of this id taking the fields of the form
\* and keeping its other fields
EditedInPlace(written, old, id, form) ==
  /\ Len(written) = Len(old)
  /\ \A i \in 1..Len(old) :
       IF old[i].id = id
       THEN /\ written[i].id = id
            /\ DOMAIN written[i] = DOMAIN old[i] \cup DOMAIN form
            /\ \A f \in DOMAIN form : written[i][f] = form[f]
            /\ \A f \in DOMAIN old[i] \ DOMAIN form : written[i][f] = old[i][f]
       ELSE written[i] = old[i]

\* written is old without the entries of this id
RemovedById(written, old, id) ==
  KeepsExactly(written, old, { i \in 1..Len(old) : old[i].id # id })

KeptBySubEdit == { "id", "isCompleted", "completionData", "createdAt" }

\* C28: the array written by the edit of an expense or of a sub-project has
\* the length and the order of the parent's array, the entry with the id of
\* the edited one has the fields of the form and its other fields as before
\* (its id; for a sub-project its completed flag, completion data and
\* creation date), every other entry is as before; the array written by a
\* delete is the parent's array without the entries of that id, the others
\* in their order
C28_EditAndDeleteFrame ==
  /\ [][ Issued("handleExpenseSubmit") /\ gc.editingExpense # None =>
           EditedInPlace(inflight'[1].data.expenses, SeqOr(gc.expenseParent[1], "expenses"),
                         gc.editingExpense[1].id, gc.expenseForm) ]_vars
  /\ [][ Issued("handleSubProjectSubmit") /\ pr.editingSubProject # None =>
           /\ EditedInPlace(inflight'[1].data.subProjects,
                            SeqOr(pr.subModalParent[1], "subProjects"),
                            pr.editingSubProject[1].id, pr.subFormData)
           /\ DOMAIN pr.subFormData \cap KeptBySubEdit = {} ]_vars
  /\ [][ Issued("handleDeleteExpense") =>
           RemovedById(inflight'[1].data.expenses, gc.deletingExpense[1].workspace.expenses,
                       gc.deletingExpense[1].expense.id) ]_vars
  /\ [][ Issued("handleDeleteSubProject") =>
           RemovedById(inflight'[1].data.subProjects,
                       SeqOr(pr.deletingSubProject[1].parent, "subProjects"),
                       pr.deletingSubProject[1].sub.id) ]_vars

\* the completed Phase 1 of Wells was edited: it has the title, goal and
\* raised amount of the form, its id, completed flag, completion data and
\* creation date, and Phase 2 is as it was
C28_Witness ==
  /\ event = Step("handleSubProjectSubmit", "resolved", FALSE)
  /\ LET wells == StoredProject(store.projects, WellsProject.id)
     IN  /\ Len(wells.subProjects) = 2
         /\ wells.subProjects[1].id = PhaseOne.id
         /\ wells.subProjects[1].title = "Phase 3"
         /\ wells.subProjects[1].goal = 150
         /\ wells.subProjects[1].isCompleted
         /\ wells.subProjects[1].completionData = PhaseOne.completionData
         /\ wells.subProjects[1].createdAt = PhaseOne.createdAt
         /\ wells.subProjects[2] = PhaseTwo

\* the number of completed sub-projects of a document
CompletedSubs(data) ==
  IF data.subProjects = None THEN 0
  ELSE Cardinality({ k \in 1..Len(data.subProjects[1]) : data.subProjects[1][k].isCompleted })

\* what the claim has a document contribute to the Total Supporters figure
SupportersShare(data) ==
  IF data.isParent THEN CompletedSubs(data) * OrZero(data.supporters)
  ELSE IF data.isCompleted THEN OrZero(data.supporters)
  ELSE 0

RECURSIVE SumShares(_)
SumShares(docs) ==
  IF docs = <<>> THEN 0 ELSE SupportersShare(Head(docs)) + SumShares(Tail(docs))

\* C29: the Total Supporters figure of the completed-projects page is the
\* sum over the documents of the snapshot shown of: k times the supporter
\* count for a parent project with k completed sub-projects (nothing when
\* k = 0), the supporter count once for a completed project that is no
\* parent, nothing for any other; the Water Program with 7 supporters and
\* only an uncompleted sub-project adds nothing
C29_TotalSupporters ==
  /\ cpLast # None => totalSupporters = SumShares(cpLast[1])
  /\ cpLast = None => totalSupporters = 0
  /\ LET idle == [ WaterProgram EXCEPT !.subProjects = Some(<< WaterProgram.subProjects[1][2] >>) ]
     IN  SumSupporters(SortByDateDesc(Flatten(<< idle, SchoolProject >>))) = 5

\* the four projects are shown: the Water Program counts twice (14), the
\* Food Drive once (3), the School Roof once (5), the Clinic has no count
C29_Witness ==
  /\ cpLast # None
  /\ Len(cpLast[1]) = 4
  /\ Len(completedItems) = 5
  /\ totalSupporters = 22

\* the live partners with an amount above 0, by their place in the live list
Contributors == { i \in 1..Len(firestorePartners) :
                    firestorePartners[i].amount # None /\ firestorePartners[i].amount[1] > 0 }

RECURSIVE AmountOver(_)
AmountOver(I) ==
  IF I = {} THEN 0
  ELSE LET i == CHOOSE j \in I : TRUE
       IN  firestorePartners[i].amount[1] + AmountOver(I \ { i })

\* C30: the contributing-partner list of the public partners page is the
\* live partners with an amount above 0, in their order, whether the partner
\* grid shows them or not; its count is their number and the total the sum
\* of their amounts; a live partner with an amount that the grid leaves out
\* for having a seed's name is among them
C30_RollupIgnoresMerge ==
  /\ KeepsExactly(contributingPartners, firestorePartners, Contributors)
  /\ Len(contributingPartners) = Cardinality(Contributors)
  /\ totalContributed = AmountOver(Contributors)
  /\ \A i \in Contributors \ ShownLive :
       \E k \in 1..Len(contributingPartners) : contributingPartners[k] = firestorePartners[i]

\* the live partner named goodstack, with 50, is not in the grid for having
\* the name of the seed GoodStack; it is a contributor and in the total of 70
C30_Witness ==
  /\ \E i \in Contributors \ ShownLive :
       /\ firestorePartners[i].amount = Some(50)
       /\ \A j \in 1..Len(displayPartners) : displayPartners[j] # firestorePartners[i]
       /\ \E k \in 1..Len(contributingPartners) : contributingPartners[k] = firestorePartners[i]
  /\ Len(contributingPartners) = 2
  /\ totalContributed = 70

====
